---- MODULE Spec2Model ----
(***************************************************************************)
(* A model of the chatter backend: the Dialogue Engine                     *)
(* (backend/conversation_flow.py), the Conversation Store and the Response *)
(* Router of the /chat endpoint (backend/main.py), and the Power Automate  *)
(* integration (backend/power_automate.py).                                *)
(*                                                                         *)
(* Texts.  A Python str is modelled as a sequence of atoms.  A user        *)
(* message is a sequence of one-character strings, so that lower(),        *)
(* strip() and the `in` substring test are computed on its characters.  A  *)
(* literal of the source that no test looks inside is one atom holding the *)
(* whole literal, and an f-string is the concatenation of its literal      *)
(* parts and of the interpolated texts.                                    *)
(*                                                                         *)
(* Optional values.  Python's None is the empty tuple and a present value  *)
(* v is <<v>>, so that None and the empty string stay different.           *)
(***************************************************************************)
EXTENDS Integers, Sequences, FiniteSets, TLC

VARIABLES
    conversations,        \* ConversationFlow.conversations: id -> session
    engine_call,          \* the last process_message call: its arguments, what it read, what it returned
    calls,                \* number of process_message calls made so far
    conversation_memory,  \* main.conversation_memory: id -> list of ConversationMessage
    appended,             \* per id, how many messages add_to_conversation has been given
    requests,             \* the /chat requests received so far, in arrival order
    llm_clients,          \* LLMService: which provider clients were built at start-up
    correlation_call,     \* the last direct analyze_correlation call: its arguments and its result
    webhook_urls,         \* PowerAutomateIntegration.webhook_urls: key -> URL
    posted,               \* the HTTP posts sent to Power Automate flows so far, in order
    alerts                \* the incident alerts received so far, each with its position and outcome

vars ==
    <<conversations, engine_call, calls, conversation_memory, appended, requests, llm_clients,
      correlation_call, webhook_urls, posted, alerts>>

\* the state of the Power Automate integration
automation == <<webhook_urls, posted, alerts>>

----------------------------------------------------------------------------
(* Optional values *)

None == <<>>

Some(v) == <<v>>

\* Python truthiness of an optional text: neither None nor the empty string.
Truthy(o) == o # None /\ o[1] # <<>>

----------------------------------------------------------------------------
(* The Power Automate integration at construction *)

\* the keys of PowerAutomateIntegration.webhook_urls
WebhookKeys ==
    {"teams_critical", "teams_warning", "serviceNow_ticket", "jira_ticket", "escalation"}

\* __init__: every URL is "" until it is configured
AutomationInit ==
    /\ webhook_urls = [k \in WebhookKeys |-> ""]
    /\ posted = <<>>
    /\ alerts = <<>>

----------------------------------------------------------------------------
(* str.lower, str.strip and the substring test *)

LowerChar(c) ==
    CASE c = "A" -> "a" [] c = "B" -> "b" [] c = "C" -> "c" [] c = "D" -> "d"
      [] c = "E" -> "e" [] c = "F" -> "f" [] c = "G" -> "g" [] c = "H" -> "h"
      [] c = "I" -> "i" [] c = "J" -> "j" [] c = "K" -> "k" [] c = "L" -> "l"
      [] c = "M" -> "m" [] c = "N" -> "n" [] c = "O" -> "o" [] c = "P" -> "p"
      [] c = "Q" -> "q" [] c = "R" -> "r" [] c = "S" -> "s" [] c = "T" -> "t"
      [] c = "U" -> "u" [] c = "V" -> "v" [] c = "W" -> "w" [] c = "X" -> "x"
      [] c = "Y" -> "y" [] c = "Z" -> "z" [] OTHER -> c

Lower(s) == [i \in 1..Len(s) |-> LowerChar(s[i])]

Whitespace == {" ", "\t", "\n"}

RECURSIVE LStrip(_)
LStrip(s) == IF s # <<>> /\ Head(s) \in Whitespace THEN LStrip(Tail(s)) ELSE s

RECURSIVE RStrip(_)
RStrip(s) ==
    IF s # <<>> /\ s[Len(s)] \in Whitespace THEN RStrip(SubSeq(s, 1, Len(s) - 1)) ELSE s

Strip(s) == RStrip(LStrip(s))

\* `sub in s`
Contains(s, sub) ==
    \E i \in 0..(Len(s) - Len(sub)) : SubSeq(s, i + 1, i + Len(sub)) = sub

----------------------------------------------------------------------------
(* The trigger substrings of the Dialogue Engine *)

kw_amer == <<"a", "m", "e", "r">>
kw_emea == <<"e", "m", "e", "a">>
kw_1 == <<"1">>
kw_2 == <<"2">>
kw_3 == <<"3">>
kw_4 == <<"4">>
kw_customer == <<"c", "u", "s", "t", "o", "m", "e", "r">>
kw_environment == <<"e", "n", "v", "i", "r", "o", "n", "m", "e", "n", "t">>
kw_performance == <<"p", "e", "r", "f", "o", "r", "m", "a", "n", "c", "e">>
kw_lunch == <<"l", "u", "n", "c", "h">>

\* the literal prefixes of the three focus f-strings
pre_customer == <<"c", "u", "s", "t", "o", "m", "e", "r", " ">>
pre_environment == <<"e", "n", "v", "i", "r", "o", "n", "m", "e", "n", "t", " ">>
pre_performance == <<"p", "e", "r", "f", "o", "r", "m", "a", "n", "c", "e", " ">>

----------------------------------------------------------------------------
(* The messages users send in the model *)

M_AMER == <<"A", "M", "E", "R">>
M_EMEA == <<"E", "M", "E", "A">>
M_EMEA_AMER == <<"E", "M", "E", "A", "/", "A", "M", "E", "R">>
M_Texas == <<"T", "e", "x", "a", "s">>
M_Acme == <<"A", "c", "m", "e", " ", "C", "o", "r", "p">>
M_empty == <<>>
M_Lunch1 == <<"L", "u", "n", "c", "h", " ", "1">>
\* two of the replies the engine suggests
M_StartOver == <<"S", "t", "a", "r", "t", " ", "o", "v", "e", "r">>
M_StartNew ==
    <<"S", "t", "a", "r", "t", " ", "n", "e", "w", " ", "a", "n", "a", "l", "y", "s", "i", "s">>

Messages ==
    {M_AMER, M_EMEA, M_EMEA_AMER, M_Texas, M_Acme, M_empty, M_Lunch1,
     kw_1, kw_2, kw_3, kw_4}

ConvIds == {"c1", "c2"}

----------------------------------------------------------------------------
(* The Dialogue Engine: conversation_flow.py *)

Steps ==
    {"welcome", "ask_state", "ask_help_type", "ask_customer", "ask_environment",
     "ask_performance", "customer_process", "env_process", "performance_process",
     "lunch_process"}

\* mutant: a fresh session starts in a step that is not a state of the machine
NewSession_NoStep ==
    [step |-> "start", wherami |-> None, state |-> None, issue_type |-> None,
     customer |-> None, environment |-> None, performance_details |-> None,
     completed_steps |-> <<>>]

NewSession ==
    [step |-> "welcome", wherami |-> None, state |-> None, issue_type |-> None,
     customer |-> None, environment |-> None, performance_details |-> None,
     completed_steps |-> <<>>]

\* Returns the store after the lookup: an unseen id gets a fresh session.
get_conversation_state(convs, cid) ==
    IF cid \in DOMAIN convs THEN convs ELSE convs @@ (cid :> NewSession)

\* mutant: the session is replaced by a fresh one carrying the updates
update_conversation_state_Replaces(convs, cid, updates) ==
    LET c1 == get_conversation_state(convs, cid)
    IN  [c1 EXCEPT ![cid] =
            [f \in DOMAIN NewSession \cup DOMAIN updates |->
                IF f \in DOMAIN updates THEN updates[f] ELSE NewSession[f]]]

\* dict.update: the named keys are overwritten, the others kept.
update_conversation_state(convs, cid, updates) ==
    LET c1 == get_conversation_state(convs, cid)
        old == c1[cid]
    IN  [c1 EXCEPT ![cid] =
            [f \in DOMAIN old \cup DOMAIN updates |->
                IF f \in DOMAIN updates THEN updates[f] ELSE old[f]]]

Reply(response, suggestions, use_traditional_flow, focus) ==
    [response |-> response, suggestions |-> suggestions,
     use_traditional_flow |-> use_traditional_flow, focus |-> focus]

\* The text resources of load_exclamation and load_joke: the literal of the
\* except branch, or a line (a file) of backend/etc when it can be read.
FallbackExclamation == <<"Wow">>
FallbackJoke == <<"Why did the developer go broke? Because he used up all his cache!">>
Exclamations == {FallbackExclamation, <<"<a line of etc/exclamation.txt>">>}
Jokes == {FallbackJoke, <<"<the text of an etc/joke*.txt file>">>}

\* etc/exclamation.txt as open() finds it: unreadable (None), or its lines.
ExclamationFiles ==
    {None, Some(<<>>), Some(<< <<"\n">>, <<"<a line of etc/exclamation.txt>", "\n">> >>)}

\* the etc/joke*.txt files as glob finds them (none when etc cannot be
\* listed), each unreadable (None) or with its text.
JokeFiles ==
    {<<>>, <<None>>, << Some(<<"<the text of an etc/joke*.txt file>", "\n">>) >>}

\* backend/etc cannot be read
NoResources == [exclamation_file |-> None, joke_files |-> <<>>]

\* load_exclamation: a stripped non-blank line of the file (the files of
\* ExclamationFiles leave random.choice at most one candidate), or "Wow" when
\* open raises or random.choice raises on an empty list.
load_exclamation(file) ==
    IF file = None THEN FallbackExclamation
    ELSE LET stripped == [i \in 1..Len(file[1]) |-> Strip(file[1][i])]
             exclamations == SelectSeq(stripped, LAMBDA line : line # <<>>)
         IN  IF exclamations = <<>> THEN FallbackExclamation ELSE exclamations[1]

\* load_joke: the stripped text of a joke file (JokeFiles leave random.choice
\* one candidate), or the cache joke when there is no file or open raises.
load_joke(files) ==
    IF files = <<>> THEN FallbackJoke
    ELSE IF files[1] = None THEN FallbackJoke
    ELSE Strip(files[1][1])

_get_help_type_question ==
    Reply(<<"What can I help you with today:\n\n1. A specific customer\n2. A specific environment\n3. A generic performance issue\n4. Lunch">>,
          <<"1. Customer", "2. Environment", "3. Performance", "4. Lunch">>,
          FALSE, None)

\* mutant: the two region tests in the other order
_handle_welcome_EmeaFirst(convs, cid, user_message) ==
    IF Contains(user_message, kw_emea)
    THEN [convs |-> update_conversation_state(convs, cid,
                        [wherami |-> Some("EMEA"), step |-> "ask_help_type"]),
          result |-> _get_help_type_question]
    ELSE IF Contains(user_message, kw_amer)
    THEN [convs |-> update_conversation_state(convs, cid,
                        [wherami |-> Some("AMER"), step |-> "ask_state"]),
          result |-> Reply(<<"Great! Which state?">>,
                           <<"California", "Texas", "New York", "Florida", "Other">>,
                           FALSE, None)]
    ELSE [convs |-> convs,
          result |-> Reply(<<"I didn't catch that! Please let me know - are you writing in from AMER or EMEA?">>,
                           <<"AMER", "EMEA">>, FALSE, None)]

\* mutant: an EMEA user is asked for a state as well
_handle_welcome_EmeaAsksState(convs, cid, user_message) ==
    IF Contains(user_message, kw_amer)
    THEN [convs |-> update_conversation_state(convs, cid,
                        [wherami |-> Some("AMER"), step |-> "ask_state"]),
          result |-> Reply(<<"Great! Which state?">>,
                           <<"California", "Texas", "New York", "Florida", "Other">>,
                           FALSE, None)]
    ELSE IF Contains(user_message, kw_emea)
    THEN [convs |-> update_conversation_state(convs, cid,
                        [wherami |-> Some("EMEA"), step |-> "ask_state"]),
          result |-> Reply(<<"Great! Which state?">>,
                           <<"California", "Texas", "New York", "Florida", "Other">>,
                           FALSE, None)]
    ELSE [convs |-> convs,
          result |-> Reply(<<"I didn't catch that! Please let me know - are you writing in from AMER or EMEA?">>,
                           <<"AMER", "EMEA">>, FALSE, None)]

\* mutant: an EMEA session gets its region as its locality
_handle_welcome_EmeaLocality(convs, cid, user_message) ==
    IF Contains(user_message, kw_amer)
    THEN [convs |-> update_conversation_state(convs, cid,
                        [wherami |-> Some("AMER"), step |-> "ask_state"]),
          result |-> Reply(<<"Great! Which state?">>,
                           <<"California", "Texas", "New York", "Florida", "Other">>,
                           FALSE, None)]
    ELSE IF Contains(user_message, kw_emea)
    THEN [convs |-> update_conversation_state(convs, cid,
                        [wherami |-> Some("EMEA"), state |-> Some(<<"EMEA">>),
                         step |-> "ask_help_type"]),
          result |-> _get_help_type_question]
    ELSE [convs |-> convs,
          result |-> Reply(<<"I didn't catch that! Please let me know - are you writing in from AMER or EMEA?">>,
                           <<"AMER", "EMEA">>, FALSE, None)]

_handle_welcome(convs, cid, user_message) ==
    IF Contains(user_message, kw_amer)
    THEN [convs |-> update_conversation_state(convs, cid,
                        [wherami |-> Some("AMER"), step |-> "ask_state"]),
          result |-> Reply(<<"Great! Which state?">>,
                           <<"California", "Texas", "New York", "Florida", "Other">>,
                           FALSE, None)]
    ELSE IF Contains(user_message, kw_emea)
    THEN [convs |-> update_conversation_state(convs, cid,
                        [wherami |-> Some("EMEA"), step |-> "ask_help_type"]),
          result |-> _get_help_type_question]
    ELSE [convs |-> convs,
          result |-> Reply(<<"I didn't catch that! Please let me know - are you writing in from AMER or EMEA?">>,
                           <<"AMER", "EMEA">>, FALSE, None)]

\* mutant: the locality is stored lower-cased and stripped, as the other handlers get it
_handle_state_question_Lowered(convs, cid, user_message) ==
    [convs |-> update_conversation_state(convs, cid,
                   [state |-> Some(Strip(Lower(user_message))), step |-> "ask_help_type"]),
     result |-> _get_help_type_question]

_handle_state_question(convs, cid, user_message) ==
    [convs |-> update_conversation_state(convs, cid,
                   [state |-> Some(user_message), step |-> "ask_help_type"]),
     result |-> _get_help_type_question]

\* mutant: the lunch reply never uses the locality
_start_lunch_process_NoLocality(convs, cid) ==
    [convs |-> get_conversation_state(convs, cid),
     result |-> Reply(<<"I am not fantastic with geography yet, so cannot narrow down a list to something close by. BUT.. here are all known R365 customer locations (please specify your state for better results).">>,
                      <<"Show all locations", "Start over">>, FALSE, None)]

_start_lunch_process(convs, cid) ==
    LET state == get_conversation_state(convs, cid)[cid]
        response ==
            IF Truthy(state.state)
            THEN <<"I am not fantastic with geography yet, so cannot narrow down a list to something close by. BUT.. here are all known R365 customer locations in: [">>
                 \o state.state[1] \o <<"](http://10.10.4.6/dashboards/food/main.html?state=">>
                 \o state.state[1] \o <<")">>
            ELSE <<"I am not fantastic with geography yet, so cannot narrow down a list to something close by. BUT.. here are all known R365 customer locations (please specify your state for better results).">>
    IN  [convs |-> get_conversation_state(convs, cid),
         result |-> Reply(response, <<"Show all locations", "Start over">>, FALSE, None)]

\* mutant: the lunch trigger is tried before the three others
_handle_help_type_LunchFirst(convs, cid, user_message) ==
    IF Contains(user_message, kw_4) \/ Contains(user_message, kw_lunch)
    THEN _start_lunch_process(
             update_conversation_state(convs, cid,
                 [issue_type |-> Some("lunch"), step |-> "lunch_process"]), cid)
    ELSE IF Contains(user_message, kw_1) \/ Contains(user_message, kw_customer)
    THEN [convs |-> update_conversation_state(convs, cid,
                        [issue_type |-> Some("customer"), step |-> "ask_customer"]),
          result |-> Reply(<<"Which customer?">>, <<>>, FALSE, None)]
    ELSE IF Contains(user_message, kw_2) \/ Contains(user_message, kw_environment)
    THEN [convs |-> update_conversation_state(convs, cid,
                        [issue_type |-> Some("environment"), step |-> "ask_environment"]),
          result |-> Reply(<<"Which environment?">>,
                           <<"Production", "Staging", "Development", "QA">>, FALSE, None)]
    ELSE IF Contains(user_message, kw_3) \/ Contains(user_message, kw_performance)
    THEN [convs |-> update_conversation_state(convs, cid,
                        [issue_type |-> Some("performance"), step |-> "ask_performance"]),
          result |-> Reply(<<"Tell me more...">>, <<>>, FALSE, None)]
    ELSE [convs |-> convs,
          result |-> Reply(<<"I didn't understand that. Please choose from the options:\n\n1. A specific customer\n2. A specific environment\n3. A generic performance issue\n4. Lunch">>,
                           <<"1. Customer", "2. Environment", "3. Performance", "4. Lunch">>,
                           FALSE, None)]

\* mutant: an unrecognised choice is answered by the menu itself
_handle_help_type_ElseMenu(convs, cid, user_message) ==
    IF Contains(user_message, kw_1) \/ Contains(user_message, kw_customer)
    THEN [convs |-> update_conversation_state(convs, cid,
                        [issue_type |-> Some("customer"), step |-> "ask_customer"]),
          result |-> Reply(<<"Which customer?">>, <<>>, FALSE, None)]
    ELSE IF Contains(user_message, kw_2) \/ Contains(user_message, kw_environment)
    THEN [convs |-> update_conversation_state(convs, cid,
                        [issue_type |-> Some("environment"), step |-> "ask_environment"]),
          result |-> Reply(<<"Which environment?">>,
                           <<"Production", "Staging", "Development", "QA">>, FALSE, None)]
    ELSE IF Contains(user_message, kw_3) \/ Contains(user_message, kw_performance)
    THEN [convs |-> update_conversation_state(convs, cid,
                        [issue_type |-> Some("performance"), step |-> "ask_performance"]),
          result |-> Reply(<<"Tell me more...">>, <<>>, FALSE, None)]
    ELSE IF Contains(user_message, kw_4) \/ Contains(user_message, kw_lunch)
    THEN _start_lunch_process(
             update_conversation_state(convs, cid,
                 [issue_type |-> Some("lunch"), step |-> "lunch_process"]), cid)
    ELSE [convs |-> convs, result |-> _get_help_type_question]

_handle_help_type(convs, cid, user_message) ==
    IF Contains(user_message, kw_1) \/ Contains(user_message, kw_customer)
    THEN [convs |-> update_conversation_state(convs, cid,
                        [issue_type |-> Some("customer"), step |-> "ask_customer"]),
          result |-> Reply(<<"Which customer?">>, <<>>, FALSE, None)]
    ELSE IF Contains(user_message, kw_2) \/ Contains(user_message, kw_environment)
    THEN [convs |-> update_conversation_state(convs, cid,
                        [issue_type |-> Some("environment"), step |-> "ask_environment"]),
          result |-> Reply(<<"Which environment?">>,
                           <<"Production", "Staging", "Development", "QA">>, FALSE, None)]
    ELSE IF Contains(user_message, kw_3) \/ Contains(user_message, kw_performance)
    THEN [convs |-> update_conversation_state(convs, cid,
                        [issue_type |-> Some("performance"), step |-> "ask_performance"]),
          result |-> Reply(<<"Tell me more...">>, <<>>, FALSE, None)]
    ELSE IF Contains(user_message, kw_4) \/ Contains(user_message, kw_lunch)
    THEN _start_lunch_process(
             update_conversation_state(convs, cid,
                 [issue_type |-> Some("lunch"), step |-> "lunch_process"]), cid)
    ELSE [convs |-> convs,
          result |-> Reply(<<"I didn't understand that. Please choose from the options:\n\n1. A specific customer\n2. A specific environment\n3. A generic performance issue\n4. Lunch">>,
                           <<"1. Customer", "2. Environment", "3. Performance", "4. Lunch">>,
                           FALSE, None)]

\* mutant: the initial-response reply already hands the turn to the router
_start_initial_response_process_Traditional(convs, cid, exclamation, joke) ==
    [convs |-> get_conversation_state(convs, cid),
     result |-> Reply(<<"My team says 'It's definitely not a database issue... but let me 2x check.'\n\n">>
                      \o exclamation \o joke,
                      <<"Continue with analysis", "Ask more questions", "Start over">>,
                      TRUE, None)]

\* mutant: the EMEA line is appended whenever the location line is not
_start_initial_response_process_EmeaElse(convs, cid, exclamation, joke) ==
    LET state == get_conversation_state(convs, cid)[cid]
        head ==
            <<"My team says 'It's definitely not a database issue... but let me 2x check.'\n\n">>
            \o exclamation
            \o <<". Your monitoring guys are good... there is a ton of data to check... it will take a bit. Here is a Dad joke while you wait:\n\n">>
            \o joke \o <<"\n\n">>
        food ==
            IF state.wherami = Some("AMER") /\ Truthy(state.state)
            THEN <<"Staying PRODUCTIVE means you should keep energized with some sustenance. Try checking out one of these R365 customer locations: http://10.10.4.6/dashboards/food/main.html?state=">>
                 \o state.state[1] \o <<"&top3">>
            ELSE <<"Oh. R365 does not have many customer locations in EMEA...yet. :)">>
    IN  [convs |-> get_conversation_state(convs, cid),
         result |-> Reply(head \o food,
                          <<"Continue with analysis", "Ask more questions", "Start over">>,
                          FALSE, None)]

_start_initial_response_process(convs, cid, exclamation, joke) ==
    LET state == get_conversation_state(convs, cid)[cid]
        head ==
            <<"My team says 'It's definitely not a database issue... but let me 2x check.'\n\n">>
            \o exclamation
            \o <<". Your monitoring guys are good... there is a ton of data to check... it will take a bit. Here is a Dad joke while you wait:\n\n">>
            \o joke \o <<"\n\n">>
        food ==
            IF state.wherami = Some("AMER") /\ Truthy(state.state)
            THEN <<"Staying PRODUCTIVE means you should keep energized with some sustenance. Try checking out one of these R365 customer locations: http://10.10.4.6/dashboards/food/main.html?state=">>
                 \o state.state[1] \o <<"&top3">>
            ELSE IF state.wherami = Some("EMEA")
            THEN <<"Oh. R365 does not have many customer locations in EMEA...yet. :)">>
            ELSE <<>>
    IN  [convs |-> get_conversation_state(convs, cid),
         result |-> Reply(head \o food,
                          <<"Continue with analysis", "Ask more questions", "Start over">>,
                          FALSE, None)]

\* mutant: the customer is stored lower-cased and stripped
_handle_customer_Lowered(convs, cid, user_message, exclamation, joke) ==
    _start_initial_response_process(
        update_conversation_state(convs, cid,
            [customer |-> Some(Strip(Lower(user_message))), step |-> "customer_process"]),
        cid, exclamation, joke)

_handle_customer(convs, cid, user_message, exclamation, joke) ==
    _start_initial_response_process(
        update_conversation_state(convs, cid,
            [customer |-> Some(user_message), step |-> "customer_process"]),
        cid, exclamation, joke)

\* mutant: the environment is stored in the customer field
_handle_environment_IntoCustomer(convs, cid, user_message, exclamation, joke) ==
    _start_initial_response_process(
        update_conversation_state(convs, cid,
            [customer |-> Some(user_message), step |-> "env_process"]),
        cid, exclamation, joke)

_handle_environment(convs, cid, user_message, exclamation, joke) ==
    _start_initial_response_process(
        update_conversation_state(convs, cid,
            [environment |-> Some(user_message), step |-> "env_process"]),
        cid, exclamation, joke)

\* mutant: the performance details are stored as the customer
_handle_performance_AsCustomer(convs, cid, user_message, exclamation, joke) ==
    _start_initial_response_process(
        update_conversation_state(convs, cid,
            [customer |-> Some(user_message), step |-> "performance_process"]),
        cid, exclamation, joke)

_handle_performance(convs, cid, user_message, exclamation, joke) ==
    _start_initial_response_process(
        update_conversation_state(convs, cid,
            [performance_details |-> Some(user_message), step |-> "performance_process"]),
        cid, exclamation, joke)

\* mutant: the follow-up reply is always the generic one, without a focus
_handle_detailed_process_NoFocus(convs, cid, user_message, process_type) ==
    [convs |-> get_conversation_state(convs, cid),
     result |-> Reply(<<"Let me analyze that further. What specific details would you like me to investigate?">>,
                      <<"Show more details", "Try different approach", "Start over">>,
                      TRUE, None)]

_handle_detailed_process(convs, cid, user_message, process_type) ==
    LET state == get_conversation_state(convs, cid)[cid]
        generic ==
            Reply(<<"Let me analyze that further. What specific details would you like me to investigate?">>,
                  <<"Show more details", "Try different approach", "Start over">>,
                  TRUE, None)
        result ==
            IF process_type = "customer_process"
            THEN IF Truthy(state.customer)
                 THEN Reply(<<"Looking for specific information about customer '">>
                            \o state.customer[1]
                            \o <<"' in our monitoring data. Let me check recent alerts, performance metrics, and any known issues for this customer...\n\nWould you like me to focus on any specific time range or service?">>,
                            <<"Last 24 hours", "Last week", "Specific service", "All data">>,
                            TRUE, Some(pre_customer \o state.customer[1]))
                 ELSE generic
            ELSE IF process_type = "env_process"
            THEN IF Truthy(state.environment)
                 THEN Reply(<<"Analyzing environment '">>
                            \o state.environment[1]
                            \o <<"' in our monitoring data. Checking system health, recent deployments, and performance metrics...\n\nWhat specific aspect would you like me to investigate?">>,
                            <<"Recent deployments", "Error rates", "Performance metrics", "System health">>,
                            TRUE, Some(pre_environment \o state.environment[1]))
                 ELSE generic
            ELSE IF process_type = "performance_process"
            THEN IF Truthy(state.performance_details)
                 THEN Reply(<<"Investigating performance issue: '">>
                            \o state.performance_details[1]
                            \o <<"'. Analyzing metrics, error patterns, and correlations...\n\nWould you like me to look at any specific time period or component?">>,
                            <<"Last hour", "During business hours", "Specific service", "All components">>,
                            TRUE, Some(pre_performance \o state.performance_details[1]))
                 ELSE generic
            ELSE generic
    IN  [convs |-> get_conversation_state(convs, cid), result |-> result]

\* mutant: the closing lunch reply hands the turn to the router
_handle_lunch_process_Traditional(convs, cid, user_message) ==
    [convs |-> convs,
     result |-> Reply(<<"Hope you find a great place for lunch! Anything else I can help you with?">>,
                      <<"Start new analysis", "Customer issue", "Environment check">>,
                      TRUE, None)]

\* mutant: "start new analysis" takes a lunch session back to the first question
_handle_lunch_process_StartsNew(convs, cid, user_message) ==
    IF Contains(user_message, Lower(M_StartNew))
    THEN [convs |-> update_conversation_state(convs, cid, [step |-> "welcome"]),
          result |-> Reply(<<"Where are you writing in from today, AMER or EMEA?">>,
                           <<"AMER", "EMEA">>, FALSE, None)]
    ELSE [convs |-> convs,
          result |-> Reply(<<"Hope you find a great place for lunch! Anything else I can help you with?">>,
                           <<"Start new analysis", "Customer issue", "Environment check">>,
                           FALSE, None)]

_handle_lunch_process(convs, cid, user_message) ==
    [convs |-> convs,
     result |-> Reply(<<"Hope you find a great place for lunch! Anything else I can help you with?">>,
                      <<"Start new analysis", "Customer issue", "Environment check">>,
                      FALSE, None)]

ResetReply ==
    Reply(<<"I'm not sure where we are in our conversation. Let's start over! Where are you writing in from today, AMER or EMEA?">>,
          <<"AMER", "EMEA">>, FALSE, None)

\* mutant: a session in no known step is put back to welcome
process_message_UnknownRestarts(convs, cid, user_message, exclamation, joke) ==
    LET c1 == get_conversation_state(convs, cid)
        current_step == c1[cid].step
        user_message_lower == Strip(Lower(user_message))
    IN  CASE current_step = "welcome" -> _handle_welcome(c1, cid, user_message_lower)
          [] current_step = "ask_state" -> _handle_state_question(c1, cid, user_message)
          [] current_step = "ask_help_type" -> _handle_help_type(c1, cid, user_message_lower)
          [] current_step = "ask_customer" ->
                _handle_customer(c1, cid, user_message, exclamation, joke)
          [] current_step = "ask_environment" ->
                _handle_environment(c1, cid, user_message, exclamation, joke)
          [] current_step = "ask_performance" ->
                _handle_performance(c1, cid, user_message, exclamation, joke)
          [] current_step \in {"customer_process", "env_process", "performance_process"} ->
                _handle_detailed_process(c1, cid, user_message_lower, current_step)
          [] current_step = "lunch_process" ->
                _handle_lunch_process(c1, cid, user_message_lower)
          [] OTHER -> [convs |-> update_conversation_state(c1, cid, [step |-> "welcome"]),
                       result |-> ResetReply]

\* process_message: the session is looked up (and created), the step read, the
\* message lower-cased and stripped, and the handler of the step called.
process_message(convs, cid, user_message, exclamation, joke) ==
    LET c1 == get_conversation_state(convs, cid)
        current_step == c1[cid].step
        user_message_lower == Strip(Lower(user_message))
    IN  CASE current_step = "welcome" -> _handle_welcome(c1, cid, user_message_lower)
          [] current_step = "ask_state" -> _handle_state_question(c1, cid, user_message)
          [] current_step = "ask_help_type" -> _handle_help_type(c1, cid, user_message_lower)
          [] current_step = "ask_customer" ->
                _handle_customer(c1, cid, user_message, exclamation, joke)
          [] current_step = "ask_environment" ->
                _handle_environment(c1, cid, user_message, exclamation, joke)
          [] current_step = "ask_performance" ->
                _handle_performance(c1, cid, user_message, exclamation, joke)
          [] current_step \in {"customer_process", "env_process", "performance_process"} ->
                _handle_detailed_process(c1, cid, user_message_lower, current_step)
          [] current_step = "lunch_process" ->
                _handle_lunch_process(c1, cid, user_message_lower)
          [] OTHER -> [convs |-> c1, result |-> ResetReply]

\* What a process_message call leaves to look at: its arguments, whether the
\* lookup created the session, the session it read, the text resources as it
\* found them if it loaded them, and the reply it returned.
EngineCall(convs, cid, user_message, out) ==
    [cid |-> cid, message |-> user_message,
     created |-> cid \notin DOMAIN convs,
     before |-> get_conversation_state(convs, cid)[cid],
     resources |-> NoResources,
     result |-> out.result]

\* no analyze_correlation call was made directly
NoCorrelationCall == [made |-> FALSE]

NoCall ==
    [cid |-> "", message |-> <<>>, created |-> FALSE, before |-> NewSession,
     resources |-> NoResources, result |-> ResetReply]

----------------------------------------------------------------------------
(* SpecEngine: the Dialogue Engine driven directly, one process_message    *)
(* call per step, on any of the conversation ids.                          *)

MaxCalls == 5

EngineInit ==
    /\ conversations = <<>>
    /\ engine_call = NoCall
    /\ calls = 0
    /\ conversation_memory = <<>>
    /\ appended = <<>>
    /\ requests = <<>>
    /\ llm_clients = {}
    /\ correlation_call = NoCorrelationCall
    /\ AutomationInit

\* the steps whose handlers end in _start_initial_response_process, which
\* loads the text resources
LoadingSteps == {"ask_customer", "ask_environment", "ask_performance"}

ProcessMessage(cid, user_message, exclamation_file, joke_files) ==
    /\ calls < MaxCalls
    /\ LET out == process_message(conversations, cid, user_message,
                                  load_exclamation(exclamation_file),
                                  load_joke(joke_files))
           call == EngineCall(conversations, cid, user_message, out)
       IN  /\ conversations' = out.convs
           /\ engine_call' =
                  IF call.before.step \in LoadingSteps
                  THEN [call EXCEPT !.resources = [exclamation_file |-> exclamation_file,
                                                   joke_files |-> joke_files]]
                  ELSE call
    /\ calls' = calls + 1
    /\ UNCHANGED <<conversation_memory, appended, requests, llm_clients, correlation_call, automation>>

\* the text resources matter to a call only if it loads them
Loads(cid) ==
    cid \in DOMAIN conversations /\ conversations[cid].step \in LoadingSteps

ExclamationFilesFor(cid) == IF Loads(cid) THEN ExclamationFiles ELSE {None}

JokeFilesFor(cid) == IF Loads(cid) THEN JokeFiles ELSE {<<>>}

EngineNext ==
    \E cid \in ConvIds, m \in Messages :
        \E e \in ExclamationFilesFor(cid), j \in JokeFilesFor(cid) :
            ProcessMessage(cid, m, e, j)

SpecEngine == EngineInit /\ [][EngineNext]_vars

----------------------------------------------------------------------------
(* SpecOver: the Dialogue Engine driven as in SpecEngine, with the choices  *)
(* that lead to the four final steps and with two of the replies it         *)
(* suggests there, "Start over" and "Start new analysis".                   *)

OverMessages == {M_AMER, M_EMEA, kw_1, kw_2, kw_3, kw_4, M_StartOver, M_StartNew}

OverNext ==
    \E cid \in ConvIds, m \in OverMessages :
        \E e \in ExclamationFilesFor(cid), j \in JokeFilesFor(cid) :
            ProcessMessage(cid, m, e, j)

SpecOver == EngineInit /\ [][OverNext]_vars

----------------------------------------------------------------------------
(* SpecReset: process_message applied to a session whose step is none of   *)
(* the ten.  No handler writes such a step, so the session is an input:    *)
(* the store holds it from the start, with the fields of a fresh session   *)
(* or with those of a session that went through the customer branch.       *)

\* step values outside the machine; "" stands for a step that was never set
UnknownSteps == {"", "start", "done"}

ResetInit ==
    /\ \E step \in UnknownSteps :
         \E session \in {NewSession,
                         [NewSession EXCEPT !.wherami = Some("AMER"),
                                            !.state = Some(M_Texas),
                                            !.issue_type = Some("customer"),
                                            !.customer = Some(M_Acme)]} :
            conversations = ("c1" :> [session EXCEPT !.step = step])
    /\ engine_call = NoCall
    /\ calls = 0
    /\ conversation_memory = <<>>
    /\ appended = <<>>
    /\ requests = <<>>
    /\ llm_clients = {}
    /\ correlation_call = NoCorrelationCall
    /\ AutomationInit

ResetNext ==
    \E m \in Messages :
        \E e \in ExclamationFilesFor("c1"), j \in JokeFilesFor("c1") :
            ProcessMessage("c1", m, e, j)

SpecReset == ResetInit /\ [][ResetNext]_vars

----------------------------------------------------------------------------
(* Numbers in texts: int(...) of a digit string and the f-string rendering *)
(* of an int.                                                               *)

Digits == <<"0", "1", "2", "3", "4", "5", "6", "7", "8", "9">>

IsDigit(c) == \E d \in 1..10 : Digits[d] = c

DigitValue(c) == (CHOOSE d \in 1..10 : Digits[d] = c) - 1

RECURSIVE ParseInt(_)
ParseInt(s) ==
    IF s = <<>> THEN 0 ELSE 10 * ParseInt(SubSeq(s, 1, Len(s) - 1)) + DigitValue(s[Len(s)])

RECURSIVE IntToText(_)
IntToText(n) ==
    IF n < 10 THEN <<Digits[n + 1]>> ELSE IntToText(n \div 10) \o <<Digits[(n % 10) + 1]>>

\* "\n".join(texts) and the like
RECURSIVE Join(_, _)
Join(sep, texts) ==
    IF texts = <<>> THEN <<>>
    ELSE IF Len(texts) = 1 THEN texts[1]
    ELSE texts[1] \o sep \o Join(sep, Tail(texts))

\* the concatenation of a list of texts
RECURSIVE Concat(_)
Concat(texts) == IF texts = <<>> THEN <<>> ELSE Head(texts) \o Concat(Tail(texts))

\* len(s.split()): the number of maximal runs of non-whitespace characters
WordCount(s) ==
    Cardinality({i \in 1..Len(s) :
        s[i] \notin Whitespace /\ (i = 1 \/ s[i - 1] \in Whitespace)})

----------------------------------------------------------------------------
(* The monitoring sources of IncidentAnalyzer: main.py                     *)

Sources == {"deployments", "anomalies", "errors", "alerts"}

get_recent_deployments ==
    << [service |-> "api-gateway", version |-> "v2.1.3",
        timestamp |-> "2025-01-08T14:30:00Z", author |-> "devops-bot", status |-> "success"],
       [service |-> "user-service", version |-> "v1.8.1",
        timestamp |-> "2025-01-08T13:45:00Z", author |-> "john.doe", status |-> "success"] >>

get_metric_anomalies ==
    << [metric |-> "response_time_p95", service |-> "api-gateway", current_value |-> "1250",
        baseline |-> "450", severity |-> "high", timestamp |-> "2025-01-08T14:35:00Z"],
       [metric |-> "error_rate", service |-> "user-service", current_value |-> "0.05",
        baseline |-> "0.001", severity |-> "medium", timestamp |-> "2025-01-08T14:32:00Z"] >>

get_error_spikes ==
    << [service |-> "api-gateway", error_type |-> "TimeoutError", count |-> "47",
        first_seen |-> "2025-01-08T14:31:00Z",
        sample_message |-> "Connection timeout to user-service after 30s"],
       [service |-> "user-service", error_type |-> "DatabaseConnectionError", count |-> "12",
        first_seen |-> "2025-01-08T14:30:00Z",
        sample_message |-> "Failed to connect to primary database"] >>

get_alerts ==
    << [service |-> "user-service", alert |-> "High Error Rate", status |-> "CRITICAL",
        timestamp |-> "2025-01-08T14:32:00Z", duration |-> "3m"],
       [service |-> "database-primary", alert |-> "Connection Pool Exhausted",
        status |-> "WARNING", timestamp |-> "2025-01-08T14:29:00Z", duration |-> "6m"] >>

\* What may go wrong at a source besides its query raising: its records carry
\* a time that is no ISO date.
TimeFaults == {"deployments.timestamp", "errors.first_seen"}

NotATime == "yesterday afternoon"

\* query_recent_changes: the four queries are gathered with
\* return_exceptions=True, and a source whose query raised gives [].  The
\* window is kept as its length in hours (start = end - hours).  `failed`
\* holds the sources whose query raises, and the time faults of the others.
query_recent_changes(hours, failed) ==
    [deployments |->
         IF "deployments" \in failed THEN <<>>
         ELSE IF "deployments.timestamp" \in failed
         THEN [i \in 1..Len(get_recent_deployments) |->
                  [get_recent_deployments[i] EXCEPT !.timestamp = NotATime]]
         ELSE get_recent_deployments,
     anomalies |-> IF "anomalies" \in failed THEN <<>> ELSE get_metric_anomalies,
     errors |->
         IF "errors" \in failed THEN <<>>
         ELSE IF "errors.first_seen" \in failed
         THEN [i \in 1..Len(get_error_spikes) |->
                  [get_error_spikes[i] EXCEPT !.first_seen = NotATime]]
         ELSE get_error_spikes,
     alerts |-> IF "alerts" \in failed THEN <<>> ELSE get_alerts,
     time_range |-> [hours |-> hours]]

\* datetime.fromisoformat(ts.replace('Z', '+00:00')), as minutes after
\* 2025-01-08T00:00:00+00:00, for the timestamps the sources give.
ParseTime(ts) ==
    CASE ts = "2025-01-08T13:45:00Z" -> 825
      [] ts = "2025-01-08T14:29:00Z" -> 869
      [] ts = "2025-01-08T14:30:00Z" -> 870
      [] ts = "2025-01-08T14:31:00Z" -> 871
      [] ts = "2025-01-08T14:32:00Z" -> 872
      [] ts = "2025-01-08T14:35:00Z" -> 875

\* whether datetime.fromisoformat accepts the text (it raises ValueError
\* otherwise)
Parses(ts) ==
    ts \in {"2025-01-08T13:45:00Z", "2025-01-08T14:29:00Z", "2025-01-08T14:30:00Z",
            "2025-01-08T14:31:00Z", "2025-01-08T14:32:00Z", "2025-01-08T14:35:00Z"}

\* whether analyze_correlation raises: it parses the timestamp of every
\* deployment, and the first_seen of every error of a deployment's service
\* (the service is compared first, and `and` stops at a mismatch)
CorrelationRaises(data) ==
    \E i \in 1..Len(data.deployments) :
        \/ ~Parses(data.deployments[i].timestamp)
        \/ \E j \in 1..Len(data.errors) :
               /\ data.errors[j].service = data.deployments[i].service
               /\ ~Parses(data.errors[j].first_seen)

\* mutant: the services of the alerts count as services with issues too
ServicesWithIssues_WithAlerts(data) ==
    {data.errors[i].service : i \in 1..Len(data.errors)}
        \cup {data.anomalies[i].service : i \in 1..Len(data.anomalies)}
        \cup {data.alerts[i].service : i \in 1..Len(data.alerts)}

\* The set services_with_issues of analyze_correlation.
ServicesWithIssues(data) ==
    {data.errors[i].service : i \in 1..Len(data.errors)}
        \cup {data.anomalies[i].service : i \in 1..Len(data.anomalies)}

\* The orders in which a Python set of strings may be iterated.
IterationOrders(S) ==
    {f \in [1..Cardinality(S) -> S] : \A i, j \in 1..Cardinality(S) : f[i] = f[j] => i = j}

\* mutant: an error first seen at the deployment time counts as following it
RECURSIVE DeploymentFindings_AtOrAfter(_, _)
DeploymentFindings_AtOrAfter(deployments, errors) ==
    IF deployments = <<>> THEN <<>>
    ELSE LET deployment == Head(deployments)
             deploy_time == ParseTime(deployment.timestamp)
             IsRelated(e) ==
                 e.service = deployment.service /\ ParseTime(e.first_seen) >= deploy_time
             related_errors == SelectSeq(errors, IsRelated)
             finding ==
                 <<"(!) **Deployment Correlation**: ", deployment.service, " v",
                   deployment.version, " deployed at ", deployment.timestamp,
                   " followed by ">>
                 \o IntToText(Len(related_errors)) \o <<" error types">>
         IN  (IF related_errors # <<>> THEN <<finding>> ELSE <<>>)
             \o DeploymentFindings_AtOrAfter(Tail(deployments), errors)

RECURSIVE DeploymentFindings(_, _)
DeploymentFindings(deployments, errors) ==
    IF deployments = <<>> THEN <<>>
    ELSE LET deployment == Head(deployments)
             deploy_time == ParseTime(deployment.timestamp)
             IsRelated(e) ==
                 e.service = deployment.service /\ ParseTime(e.first_seen) > deploy_time
             related_errors == SelectSeq(errors, IsRelated)
             finding ==
                 <<"(!) **Deployment Correlation**: ", deployment.service, " v",
                   deployment.version, " deployed at ", deployment.timestamp,
                   " followed by ">>
                 \o IntToText(Len(related_errors)) \o <<" error types">>
         IN  (IF related_errors # <<>> THEN <<finding>> ELSE <<>>)
             \o DeploymentFindings(Tail(deployments), errors)

\* mutant: the multi-service finding is put before the deployment findings
analyze_correlation_MultiFirst(data, order) ==
    LET services_with_issues == ServicesWithIssues(data)
        multi ==
            IF Cardinality(services_with_issues) > 1
            THEN << <<"(w) **Multi-Service Impact**: ">>
                    \o IntToText(Cardinality(services_with_issues))
                    \o <<" services affected: ">>
                    \o Join(<<", ">>, [i \in 1..Len(order) |-> <<order[i]>>]) >>
            ELSE <<>>
        analysis == multi \o DeploymentFindings(data.deployments, data.errors)
    IN  IF analysis # <<>> THEN Join(<<"\n">>, analysis)
        ELSE <<"No significant correlations detected.">>

\* analyze_correlation; `order` is the order in which the set of services is
\* iterated by ', '.join.
analyze_correlation(data, order) ==
    LET services_with_issues == ServicesWithIssues(data)
        multi ==
            IF Cardinality(services_with_issues) > 1
            THEN << <<"(w) **Multi-Service Impact**: ">>
                    \o IntToText(Cardinality(services_with_issues))
                    \o <<" services affected: ">>
                    \o Join(<<", ">>, [i \in 1..Len(order) |-> <<order[i]>>]) >>
            ELSE <<>>
        analysis == DeploymentFindings(data.deployments, data.errors) \o multi
    IN  IF analysis # <<>> THEN Join(<<"\n">>, analysis)
        ELSE <<"No significant correlations detected.">>

----------------------------------------------------------------------------
(* SpecCorrelation: analyze_correlation applied once to a bundle drawn     *)
(* from small sets of deployment, error and anomaly records; the alerts    *)
(* are those of get_alerts.                                                *)

MaxRecords == 2

\* all sequences of at most n members of S
SeqsUpTo(S, n) == UNION {[1..k -> S] : k \in 0..n}

DeploymentRecords ==
    {[service |-> s, version |-> "v2.1.3", timestamp |-> t, author |-> "devops-bot",
      status |-> "success"] :
        s \in {"api-gateway", "user-service"},
        t \in {"2025-01-08T14:30:00Z", "2025-01-08T14:31:00Z"}}

ErrorRecords ==
    {[service |-> s, error_type |-> ty, count |-> "47", first_seen |-> t,
      sample_message |-> "Connection timeout to user-service after 30s"] :
        s \in {"api-gateway", "user-service"},
        ty \in {"TimeoutError", "DatabaseConnectionError"},
        t \in {"2025-01-08T14:30:00Z", "2025-01-08T14:31:00Z", "2025-01-08T14:32:00Z"}}

AnomalyRecords ==
    {[metric |-> "error_rate", service |-> s, current_value |-> "0.05",
      baseline |-> "0.001", severity |-> "medium", timestamp |-> "2025-01-08T14:32:00Z"] :
        s \in {"api-gateway", "database-primary"}}

Bundles ==
    {[deployments |-> d, anomalies |-> a, errors |-> e, alerts |-> get_alerts,
      time_range |-> [hours |-> 2]] :
        d \in SeqsUpTo(DeploymentRecords, MaxRecords),
        a \in SeqsUpTo(AnomalyRecords, MaxRecords),
        e \in SeqsUpTo(ErrorRecords, MaxRecords)}

CorrelationInit ==
    /\ conversations = <<>>
    /\ engine_call = NoCall
    /\ calls = 0
    /\ conversation_memory = <<>>
    /\ appended = <<>>
    /\ requests = <<>>
    /\ llm_clients = {}
    /\ correlation_call = NoCorrelationCall
    /\ AutomationInit

AnalyzeCorrelation(data, order) ==
    /\ ~correlation_call.made
    /\ correlation_call' =
           [made |-> TRUE, data |-> data, order |-> order,
            result |-> analyze_correlation(data, order)]
    /\ UNCHANGED <<conversations, engine_call, calls, conversation_memory, appended, requests,
                   llm_clients, automation>>

\* the bundles left to draw: none once the call is made
BundlesToDraw == IF correlation_call.made THEN {} ELSE Bundles

CorrelationNext ==
    \E data \in BundlesToDraw :
        \E order \in IterationOrders(ServicesWithIssues(data)) :
            AnalyzeCorrelation(data, order)

SpecCorrelation == CorrelationInit /\ [][CorrelationNext]_vars

----------------------------------------------------------------------------
(* The Conversation Store of main.py                                       *)

MaxHistory == 50

\* ConversationMessage; the timestamp (the wall clock) is left out.
ConversationMessage(role, content, metadata) ==
    [role |-> role, content |-> content, metadata |-> metadata]

get_conversation_history(mem, cid) == IF cid \in DOMAIN mem THEN mem[cid] ELSE <<>>

\* l[-n:]
LastN(l, n) == IF Len(l) > n THEN SubSeq(l, Len(l) - n + 1, Len(l)) ELSE l

\* mutant: the truncation keeps the first 50 messages (l[:50]) instead of the last
add_to_conversation_KeepsOldest(mem, cid, role, content, metadata) ==
    LET m1 == IF cid \in DOMAIN mem THEN mem ELSE mem @@ (cid :> <<>>)
        l == Append(m1[cid], ConversationMessage(role, content, metadata))
    IN  [m1 EXCEPT ![cid] = IF Len(l) > MaxHistory THEN SubSeq(l, 1, MaxHistory) ELSE l]

\* mutant: every message is also kept in the history of "default"
add_to_conversation_AlsoDefault(mem, cid, role, content, metadata) ==
    LET message == ConversationMessage(role, content, metadata)
        keys == DOMAIN mem \cup {cid, "default"}
    IN  [c \in keys |->
            IF c = cid \/ c = "default"
            THEN LastN(Append(get_conversation_history(mem, c), message), MaxHistory)
            ELSE mem[c]]

add_to_conversation(mem, cid, role, content, metadata) ==
    LET m1 == IF cid \in DOMAIN mem THEN mem ELSE mem @@ (cid :> <<>>)
        l == Append(m1[cid], ConversationMessage(role, content, metadata))
    IN  [m1 EXCEPT ![cid] = IF Len(l) > MaxHistory THEN LastN(l, MaxHistory) ELSE l]

\* the ghost counter of the messages given to add_to_conversation
Count(app, cid) == IF cid \in DOMAIN app THEN app[cid] ELSE 0

Counted(app, cid, n) ==
    [c \in DOMAIN app \cup {cid} |-> IF c = cid THEN Count(app, cid) + n ELSE app[c]]

----------------------------------------------------------------------------
(* The LLM service: llm_service.py                                         *)

Providers == {"openai", "anthropic"}

\* LLMService.get_available_providers
get_available_providers(clients) ==
    (IF "openai" \in clients THEN <<"openai">> ELSE <<>>)
        \o (IF "anthropic" \in clients THEN <<"anthropic">> ELSE <<>>)

\* LLMService.generate_response with LLM_PROVIDER unset (default_provider
\* "openai"): the provider whose client answers.  Both provider functions pass
\* conversation_history[-10:] on.
LLMHistoryWindow == 10

SelectedProvider(clients) == IF "openai" \in clients THEN "openai" ELSE "anthropic"

\* An LLMResponse as a successful call returns it.
LLMResponse(provider) ==
    [content |-> <<"<completion>">>, provider |-> provider,
     model |-> IF provider = "openai" THEN "gpt-4-turbo-preview" ELSE "claude-3-sonnet-20240229",
     tokens_used |-> "<total tokens>"]

\* The call either returns an LLMResponse or raises (the provider functions
\* re-raise every API error); it never returns None.
LLMOutcomes == {"ok", "raise"}

\* IncidentContext(...) in chat_endpoint gives service_health, declared
\* Optional[Dict[str, Any]], the list data["anomalies"].  pydantic validates the
\* constructor's arguments: a list of anomaly records is no dict and the
\* constructor raises ValidationError (1.x tries dict(v), which fails on
\* records of six keys; 2.x rejects every list).  The empty list, which is what
\* a failed anomalies query leaves, is coerced to {} by 1.x and rejected by 2.x.
IncidentContextOutcomes(data) ==
    IF data.anomalies = <<>> THEN {"ok", "ValidationError"} ELSE {"ValidationError"}

\* main.py imports logging and names `logger` in its two LLM fallback branches
\* without ever binding it.
main_logger_bound == FALSE

----------------------------------------------------------------------------
(* The Response Router: chat_endpoint of main.py                           *)

kw_what_changed == <<"w", "h", "a", "t", " ", "c", "h", "a", "n", "g", "e", "d">>
kw_recent_changes == <<"r", "e", "c", "e", "n", "t", " ", "c", "h", "a", "n", "g", "e", "s">>
kw_error == <<"e", "r", "r", "o", "r">>
kw_detail == <<"d", "e", "t", "a", "i", "l">>
kw_pattern == <<"p", "a", "t", "t", "e", "r", "n">>
kw_hour == <<"h", "o", "u", "r">>

LLMKeywords ==
    { <<"a", "n", "a", "l", "y", "z", "e">>,
      <<"e", "x", "p", "l", "a", "i", "n">>,
      <<"w", "h", "y">>,
      <<"h", "o", "w">>,
      <<"w", "h", "a", "t", " ", "s", "h", "o", "u", "l", "d">>,
      <<"r", "e", "c", "o", "m", "m", "e", "n", "d">>,
      <<"s", "u", "g", "g", "e", "s", "t">>,
      <<"h", "e", "l", "p">>,
      <<"u", "n", "d", "e", "r", "s", "t", "a", "n", "d">>,
      <<"i", "n", "v", "e", "s", "t", "i", "g", "a", "t", "e">>,
      <<"t", "r", "o", "u", "b", "l", "e", "s", "h", "o", "o", "t">> }

MaxWords == 10

\* mutant: the flag of the Dialogue Engine is left out of the decision
UseLLM_KeywordsOnly(query, flow_result) ==
    \/ \E keyword \in LLMKeywords : Contains(query, keyword)
    \/ WordCount(query) > MaxWords

\* the use_llm expression of chat_endpoint
UseLLM(query, flow_result) ==
    \/ \E keyword \in LLMKeywords : Contains(query, keyword)
    \/ WordCount(query) > MaxWords
    \/ flow_result.use_traditional_flow

\* re.search(r'(\d+)\s*hours?', query): the end of the digit run that starts
\* at i, and whether the pattern matches from i.
RECURSIVE RunEnd(_, _)
RunEnd(s, i) == IF i < Len(s) /\ IsDigit(s[i + 1]) THEN RunEnd(s, i + 1) ELSE i

RECURSIVE SkipSpace(_, _)
SkipSpace(s, i) == IF i < Len(s) /\ s[i + 1] \in Whitespace THEN SkipSpace(s, i + 1) ELSE i

HourMatchAt(s, i) ==
    /\ IsDigit(s[i])
    /\ LET k == SkipSpace(s, RunEnd(s, i))
       IN  k + 4 <= Len(s) /\ SubSeq(s, k + 1, k + 4) = kw_hour

DefaultHours == 2

\* the hours of the "what changed" branch
Hours(query) ==
    IF Contains(query, kw_hour) /\ \E i \in 1..Len(query) : HourMatchAt(query, i)
    THEN LET i == CHOOSE i \in 1..Len(query) :
                      HourMatchAt(query, i) /\ \A j \in 1..(i - 1) : ~HourMatchAt(query, j)
         IN  ParseInt(SubSeq(query, i, RunEnd(query, i)))
    ELSE DefaultHours

DeploymentLine(dep) ==
    <<"- **", dep.service, "** v", dep.version, " at ", dep.timestamp, "\n">>

AlertLine(alert) ==
    <<"- **", alert.service, "**: ", alert.alert, " (", alert.status, ") - ",
      alert.duration, "\n">>

AnomalyLine(anomaly) ==
    <<"- **", anomaly.service, "**: ", anomaly.metric, " = ", anomaly.current_value,
      " (baseline: ", anomaly.baseline, ")\n">>

\* (the two backticks of the source literal are spelled out)
ErrorBlock(error) ==
    <<"### ", error.service, " - ", error.error_type, "\n",
      "**Count**: ", error.count, " occurrences\n",
      "**First Seen**: ", error.first_seen, "\n",
      "**Sample**: <backtick>", error.sample_message, "<backtick>\n\n">>

\* mutant: the error branch is tried before the changes branch
RuleBased_ErrorsFirst(query, data, correlation_analysis, clients) ==
    IF Contains(query, kw_error)
            /\ (Contains(query, kw_detail) \/ Contains(query, kw_pattern))
    THEN [response |->
              (IF data.errors # <<>>
               THEN <<"## Error Analysis\n\n">>
                    \o Concat([i \in 1..Len(data.errors) |-> ErrorBlock(data.errors[i])])
               ELSE <<"No recent errors detected in the monitored services.">>),
          suggestions |->
              <<"What's causing these errors?", "How can I fix this issue?",
                "Check service dependencies", "Show related alerts">>]
    ELSE IF Contains(query, kw_what_changed) \/ Contains(query, kw_recent_changes)
    THEN [response |->
              <<"## Recent Changes (Last ">> \o IntToText(Hours(query)) \o <<" hours)\n\n">>
              \o correlation_analysis \o <<"\n\n">>
              \o (IF data.deployments # <<>>
                  THEN <<"### Deployments\n">>
                       \o Concat([i \in 1..Len(data.deployments) |->
                                     DeploymentLine(data.deployments[i])])
                       \o <<"\n">>
                  ELSE <<>>)
              \o (IF data.alerts # <<>>
                  THEN <<"### Active Alerts\n">>
                       \o Concat([i \in 1..Len(data.alerts) |-> AlertLine(data.alerts[i])])
                       \o <<"\n">>
                  ELSE <<>>)
              \o (IF data.anomalies # <<>>
                  THEN <<"### Metric Anomalies\n">>
                       \o Concat([i \in 1..Len(data.anomalies) |->
                                     AnomalyLine(data.anomalies[i])])
                  ELSE <<>>),
          suggestions |->
              <<"Analyze the correlation between deployments and errors",
                "What should I investigate first?",
                "Generate incident summary",
                "Show deployment rollback options">>]
    ELSE [response |->
              <<"## ">>
              \o (IF get_available_providers(clients) # <<>>
                  THEN <<"**AI-Powered Analysis Available**">>
                  ELSE <<"**Rule-Based Analysis**">>)
              \o <<"\n\nI can help you investigate incidents by analyzing your monitoring data and providing intelligent insights: ... I monitor your Grafana, Prometheus, Elasticsearch, and Nagios systems.">>,
          suggestions |->
              <<"Analyze what changed in the last 2 hours",
                "What should I investigate first?",
                "Show me current system health",
                "Generate incident summary">>]

\* The rule-based branches of chat_endpoint, in their order.
RuleBased(query, data, correlation_analysis, clients) ==
    IF Contains(query, kw_what_changed) \/ Contains(query, kw_recent_changes)
    THEN [response |->
              <<"## Recent Changes (Last ">> \o IntToText(Hours(query)) \o <<" hours)\n\n">>
              \o correlation_analysis \o <<"\n\n">>
              \o (IF data.deployments # <<>>
                  THEN <<"### Deployments\n">>
                       \o Concat([i \in 1..Len(data.deployments) |->
                                     DeploymentLine(data.deployments[i])])
                       \o <<"\n">>
                  ELSE <<>>)
              \o (IF data.alerts # <<>>
                  THEN <<"### Active Alerts\n">>
                       \o Concat([i \in 1..Len(data.alerts) |-> AlertLine(data.alerts[i])])
                       \o <<"\n">>
                  ELSE <<>>)
              \o (IF data.anomalies # <<>>
                  THEN <<"### Metric Anomalies\n">>
                       \o Concat([i \in 1..Len(data.anomalies) |->
                                     AnomalyLine(data.anomalies[i])])
                  ELSE <<>>),
          suggestions |->
              <<"Analyze the correlation between deployments and errors",
                "What should I investigate first?",
                "Generate incident summary",
                "Show deployment rollback options">>]
    ELSE IF Contains(query, kw_error)
            /\ (Contains(query, kw_detail) \/ Contains(query, kw_pattern))
    THEN [response |->
              (IF data.errors # <<>>
               THEN <<"## Error Analysis\n\n">>
                    \o Concat([i \in 1..Len(data.errors) |-> ErrorBlock(data.errors[i])])
               ELSE <<"No recent errors detected in the monitored services.">>),
          suggestions |->
              <<"What's causing these errors?", "How can I fix this issue?",
                "Check service dependencies", "Show related alerts">>]
    ELSE [response |->
              <<"## ">>
              \o (IF get_available_providers(clients) # <<>>
                  THEN <<"**AI-Powered Analysis Available**">>
                  ELSE <<"**Rule-Based Analysis**">>)
              \o <<"\n\nI can help you investigate incidents by analyzing your monitoring data and providing intelligent insights: ... I monitor your Grafana, Prometheus, Elasticsearch, and Nagios systems.">>,
          suggestions |->
              <<"Analyze what changed in the last 2 hours",
                "What should I investigate first?",
                "Show me current system health",
                "Generate incident summary">>]

ChatResponse(response, data, suggestions, llm_response, analysis_type) ==
    [response |-> response, data |-> data, suggestions |-> suggestions,
     llm_response |-> llm_response, analysis_type |-> analysis_type]

\* A request: its arguments (`given` is message.conversation_id), where it
\* stands (awaiting the gather of the monitoring queries, awaiting the LLM
\* call, or done), its local variables, how its LLM call ended if it made one
\* ("ok" or "raise") and how it ended itself: status 200 with a ChatResponse,
\* or status 500 with the exception that reached the except branch.
Request(given, cid, message, pc, flow_result, status, response) ==
    [given |-> given, conversation_id |-> cid, message |-> message, pc |-> pc,
     flow_result |-> flow_result,
     data |-> None, correlation_analysis |-> <<>>, context |-> None, history |-> <<>>,
     llm_outcome |-> "", error |-> "", status |-> status, response |-> response]

\* `message.conversation_id or "default"`
DefaultId == "default"

\* mutant: only an absent id is replaced by "default"
EffectiveId_EmptyKept(conversation_id) ==
    IF conversation_id = None THEN DefaultId ELSE conversation_id[1]

EffectiveId(conversation_id) ==
    IF conversation_id = None \/ conversation_id[1] = "" THEN DefaultId ELSE conversation_id[1]

\* the except branch at the end of chat_endpoint: HTTPException(500)
Failed(r, error) ==
    [r EXCEPT !.pc = "done", !.status = 500, !.error = error, !.data = None,
              !.correlation_analysis = <<>>, !.context = None, !.history = <<>>]

\* mutant: the reply of the Dialogue Engine is returned without being appended
ChatArrives_NoReplyAppend(convs, mem, conversation_id, message, exclamation, joke) ==
    LET cid == EffectiveId(conversation_id)
        mem1 == add_to_conversation(mem, cid, "user", message, None)
        out == process_message(convs, cid, message, exclamation, joke)
        flow_result == out.result
    IN  IF ~flow_result.use_traditional_flow
        THEN [convs |-> out.convs,
              mem |-> mem1,
              appends |-> 1,
              request |-> Request(conversation_id, cid, message, "done", flow_result, 200,
                              Some(ChatResponse(flow_result.response, <<>>,
                                                flow_result.suggestions, None,
                                                "conversation_flow")))]
        ELSE [convs |-> out.convs,
              mem |-> mem1,
              appends |-> 1,
              request |-> Request(conversation_id, cid, message, "await_monitoring", flow_result, 0, None)]

\* mutant: the reply that opens a process step is not returned: the request
\* goes on to the monitoring queries
ChatArrives_FetchesEarly(convs, mem, conversation_id, message, exclamation, joke) ==
    LET cid == EffectiveId(conversation_id)
        mem1 == add_to_conversation(mem, cid, "user", message, None)
        out == process_message(convs, cid, message, exclamation, joke)
        flow_result == out.result
    IN  IF /\ ~flow_result.use_traditional_flow
           /\ out.convs[cid].step \notin
                  {"customer_process", "env_process", "performance_process"}
        THEN [convs |-> out.convs,
              mem |-> add_to_conversation(mem1, cid, "assistant", flow_result.response, None),
              appends |-> 2,
              request |-> Request(conversation_id, cid, message, "done", flow_result, 200,
                              Some(ChatResponse(flow_result.response, <<>>,
                                                flow_result.suggestions, None,
                                                "conversation_flow")))]
        ELSE [convs |-> out.convs,
              mem |-> mem1,
              appends |-> 1,
              request |-> Request(conversation_id, cid, message, "await_monitoring",
                                  [flow_result EXCEPT !.use_traditional_flow = TRUE], 0, None)]

\* mutant: the engine's reply is returned but its session update is lost
ChatArrives_UpdateLost(convs, mem, conversation_id, message, exclamation, joke) ==
    LET cid == EffectiveId(conversation_id)
        mem1 == add_to_conversation(mem, cid, "user", message, None)
        out == process_message(convs, cid, message, exclamation, joke)
        flow_result == out.result
    IN  IF ~flow_result.use_traditional_flow
        THEN [convs |-> get_conversation_state(convs, cid),
              mem |-> add_to_conversation(mem1, cid, "assistant", flow_result.response, None),
              appends |-> 2,
              request |-> Request(conversation_id, cid, message, "done", flow_result, 200,
                              Some(ChatResponse(flow_result.response, <<>>,
                                                flow_result.suggestions, None,
                                                "conversation_flow")))]
        ELSE [convs |-> out.convs,
              mem |-> mem1,
              appends |-> 1,
              request |-> Request(conversation_id, cid, message, "await_monitoring", flow_result, 0, None)]

\* chat_endpoint from its first line to its first await: the user message is
\* appended, the Dialogue Engine consulted and, unless it hands over, its reply
\* appended and returned.
ChatArrives(convs, mem, conversation_id, message, exclamation, joke) ==
    LET cid == EffectiveId(conversation_id)
        mem1 == add_to_conversation(mem, cid, "user", message, None)
        out == process_message(convs, cid, message, exclamation, joke)
        flow_result == out.result
    IN  IF ~flow_result.use_traditional_flow
        THEN [convs |-> out.convs,
              mem |-> add_to_conversation(mem1, cid, "assistant", flow_result.response, None),
              appends |-> 2,
              request |-> Request(conversation_id, cid, message, "done", flow_result, 200,
                              Some(ChatResponse(flow_result.response, <<>>,
                                                flow_result.suggestions, None,
                                                "conversation_flow")))]
        ELSE [convs |-> out.convs,
              mem |-> mem1,
              appends |-> 1,
              request |-> Request(conversation_id, cid, message, "await_monitoring", flow_result, 0, None)]

\* mutant: the LLM call is given the whole history
AfterMonitoring_WholeHistory(r, mem, clients, failed, context_outcome, order) ==
    LET cid == r.conversation_id
        query == Lower(r.message)
        data == query_recent_changes(2, failed)
        correlation_analysis == analyze_correlation(data, order)
        history == get_conversation_history(mem, cid)
        focus_context == IF r.flow_result.focus = None THEN <<>> ELSE r.flow_result.focus[1]
        \* the IncidentContext: its four other fields are data and three of
        \* data's collections
        context ==
            [correlation_analysis |->
                 IF focus_context # <<>>
                 THEN correlation_analysis \o <<"\n\nFOCUS: ">> \o focus_context
                 ELSE correlation_analysis]
        use_llm == UseLLM(query, r.flow_result)
        rule == RuleBased(query, data, correlation_analysis, clients)
    IN  IF CorrelationRaises(data)
        THEN [mem |-> mem, appends |-> 0, request |-> Failed(r, "ValueError")]
        ELSE IF context_outcome # "ok"
        THEN [mem |-> mem, appends |-> 0, request |-> Failed(r, "ValidationError")]
        ELSE IF use_llm /\ get_available_providers(clients) # <<>>
        THEN [mem |-> mem, appends |-> 0,
              request |-> [r EXCEPT !.pc = "await_llm", !.data = Some(data),
                                    !.correlation_analysis = correlation_analysis,
                                    !.context = Some(context),
                                    !.history = history]]
        ELSE [mem |-> add_to_conversation(mem, cid, "assistant", rule.response, None),
              appends |-> 1,
              request |-> [r EXCEPT !.pc = "done", !.data = Some(data),
                                    !.correlation_analysis = correlation_analysis,
                                    !.context = Some(context), !.status = 200,
                                    !.response = Some(ChatResponse(rule.response, Some(data),
                                                          rule.suggestions, None,
                                                          "traditional"))]]

\* mutant: an exception of the correlation leaves an error reply in the history
AfterMonitoring_AppendsOnError(r, mem, clients, failed, context_outcome, order) ==
    LET cid == r.conversation_id
        query == Lower(r.message)
        data == query_recent_changes(2, failed)
        correlation_analysis == analyze_correlation(data, order)
        history == get_conversation_history(mem, cid)
        focus_context == IF r.flow_result.focus = None THEN <<>> ELSE r.flow_result.focus[1]
        \* the IncidentContext: its four other fields are data and three of
        \* data's collections
        context ==
            [correlation_analysis |->
                 IF focus_context # <<>>
                 THEN correlation_analysis \o <<"\n\nFOCUS: ">> \o focus_context
                 ELSE correlation_analysis]
        use_llm == UseLLM(query, r.flow_result)
        rule == RuleBased(query, data, correlation_analysis, clients)
    IN  IF CorrelationRaises(data)
        THEN [mem |-> add_to_conversation(mem, cid, "assistant",
                                          <<"Error processing request">>, None),
              appends |-> 1,
              request |-> Failed(r, "ValueError")]
        ELSE IF context_outcome # "ok"
        THEN [mem |-> mem, appends |-> 0, request |-> Failed(r, "ValidationError")]
        ELSE IF use_llm /\ get_available_providers(clients) # <<>>
        THEN [mem |-> mem, appends |-> 0,
              request |-> [r EXCEPT !.pc = "await_llm", !.data = Some(data),
                                    !.correlation_analysis = correlation_analysis,
                                    !.context = Some(context),
                                    !.history = LastN(history, LLMHistoryWindow)]]
        ELSE [mem |-> add_to_conversation(mem, cid, "assistant", rule.response, None),
              appends |-> 1,
              request |-> [r EXCEPT !.pc = "done", !.data = Some(data),
                                    !.correlation_analysis = correlation_analysis,
                                    !.context = Some(context), !.status = 200,
                                    !.response = Some(ChatResponse(rule.response, Some(data),
                                                          rule.suggestions, None,
                                                          "traditional"))]]

\* mutant: the bundle is fetched for the hours the message names
AfterMonitoring_FetchesForHours(r, mem, clients, failed, context_outcome, order) ==
    LET cid == r.conversation_id
        query == Lower(r.message)
        data == query_recent_changes(Hours(query), failed)
        correlation_analysis == analyze_correlation(data, order)
        history == get_conversation_history(mem, cid)
        focus_context == IF r.flow_result.focus = None THEN <<>> ELSE r.flow_result.focus[1]
        \* the IncidentContext: its four other fields are data and three of
        \* data's collections
        context ==
            [correlation_analysis |->
                 IF focus_context # <<>>
                 THEN correlation_analysis \o <<"\n\nFOCUS: ">> \o focus_context
                 ELSE correlation_analysis]
        use_llm == UseLLM(query, r.flow_result)
        rule == RuleBased(query, data, correlation_analysis, clients)
    IN  IF CorrelationRaises(data)
        THEN [mem |-> mem, appends |-> 0, request |-> Failed(r, "ValueError")]
        ELSE IF context_outcome # "ok"
        THEN [mem |-> mem, appends |-> 0, request |-> Failed(r, "ValidationError")]
        ELSE IF use_llm /\ get_available_providers(clients) # <<>>
        THEN [mem |-> mem, appends |-> 0,
              request |-> [r EXCEPT !.pc = "await_llm", !.data = Some(data),
                                    !.correlation_analysis = correlation_analysis,
                                    !.context = Some(context),
                                    !.history = LastN(history, LLMHistoryWindow)]]
        ELSE [mem |-> add_to_conversation(mem, cid, "assistant", rule.response, None),
              appends |-> 1,
              request |-> [r EXCEPT !.pc = "done", !.data = Some(data),
                                    !.correlation_analysis = correlation_analysis,
                                    !.context = Some(context), !.status = 200,
                                    !.response = Some(ChatResponse(rule.response, Some(data),
                                                          rule.suggestions, None,
                                                          "traditional"))]]

\* chat_endpoint from the return of query_recent_changes to its next await or
\* its end: correlation, the LLM context, the decision to use the LLM, and
\* without an LLM call the rule-based reply, appended and returned.  An
\* exception of the correlation or of the IncidentContext constructor reaches
\* the except branch.
AfterMonitoring(r, mem, clients, failed, context_outcome, order) ==
    LET cid == r.conversation_id
        query == Lower(r.message)
        data == query_recent_changes(2, failed)
        correlation_analysis == analyze_correlation(data, order)
        history == get_conversation_history(mem, cid)
        focus_context == IF r.flow_result.focus = None THEN <<>> ELSE r.flow_result.focus[1]
        \* the IncidentContext: its four other fields are data and three of
        \* data's collections
        context ==
            [correlation_analysis |->
                 IF focus_context # <<>>
                 THEN correlation_analysis \o <<"\n\nFOCUS: ">> \o focus_context
                 ELSE correlation_analysis]
        use_llm == UseLLM(query, r.flow_result)
        rule == RuleBased(query, data, correlation_analysis, clients)
    IN  IF CorrelationRaises(data)
        THEN [mem |-> mem, appends |-> 0, request |-> Failed(r, "ValueError")]
        ELSE IF context_outcome # "ok"
        THEN [mem |-> mem, appends |-> 0, request |-> Failed(r, "ValidationError")]
        ELSE IF use_llm /\ get_available_providers(clients) # <<>>
        THEN [mem |-> mem, appends |-> 0,
              request |-> [r EXCEPT !.pc = "await_llm", !.data = Some(data),
                                    !.correlation_analysis = correlation_analysis,
                                    !.context = Some(context),
                                    !.history = LastN(history, LLMHistoryWindow)]]
        ELSE [mem |-> add_to_conversation(mem, cid, "assistant", rule.response, None),
              appends |-> 1,
              request |-> [r EXCEPT !.pc = "done", !.data = Some(data),
                                    !.correlation_analysis = correlation_analysis,
                                    !.context = Some(context), !.status = 200,
                                    !.response = Some(ChatResponse(rule.response, Some(data),
                                                          rule.suggestions, None,
                                                          "traditional"))]]

\* chat_endpoint from the end of the LLM call to its end.  A successful call
\* is appended with its metadata and returned.  A call that raised is caught
\* by `except Exception as llm_error`, whose first statement names `logger`:
\* unbound, it raises NameError out of the handler into the outer except.
AfterLLM(r, mem, clients, outcome) ==
    LET cid == r.conversation_id
        query == Lower(r.message)
        data == r.data[1]
        llm_response == LLMResponse(SelectedProvider(clients))
        rule == RuleBased(query, data, r.correlation_analysis, clients)
    IN  IF outcome = "ok"
        THEN [mem |-> add_to_conversation(mem, cid, "assistant", llm_response.content,
                          Some([llm_provider |-> llm_response.provider,
                                tokens_used |-> llm_response.tokens_used])),
              appends |-> 1,
              request |-> [r EXCEPT !.pc = "done", !.status = 200, !.llm_outcome = outcome,
                                    !.response = Some(ChatResponse(llm_response.content,
                                                          Some(data),
                                                          <<"Show me specific error details",
                                                            "What are the next steps to resolve this?",
                                                            "Check related service dependencies",
                                                            "Generate incident summary report">>,
                                                          Some(llm_response), "ai_powered"))]]
        ELSE IF ~main_logger_bound
        THEN [mem |-> mem, appends |-> 0,
              request |-> [Failed(r, "NameError") EXCEPT !.llm_outcome = outcome]]
        ELSE [mem |-> add_to_conversation(mem, cid, "assistant", rule.response, None),
              appends |-> 1,
              request |-> [r EXCEPT !.pc = "done", !.status = 200, !.llm_outcome = outcome,
                                    !.response = Some(ChatResponse(rule.response, Some(data),
                                                          rule.suggestions, None,
                                                          "traditional"))]]

----------------------------------------------------------------------------
(* Spec: the /chat endpoint under concurrent requests.  A request runs     *)
(* without interruption between two awaits (one event loop), and any other *)
(* request may run while it awaits.                                        *)

MaxRequests == 5

\* the conversation_id of a request: absent, or "c1"
ChatIds == {None, Some("c1")}

ChatMessages == {M_EMEA, kw_1, kw_4, M_Acme}

\* The sets of sources whose query fails in a request: none, the anomalies
\* query, the anomalies and the errors query, all four.
FailureSets == {{}, {"anomalies"}, {"anomalies", "errors"}, Sources}

\* Start-up: no provider key is set, or the one of a single provider.
Init ==
    /\ conversations = <<>>
    /\ engine_call = NoCall
    /\ calls = 0
    /\ conversation_memory = <<>>
    /\ appended = <<>>
    /\ requests = <<>>
    /\ llm_clients \in {{}, {"openai"}, {"anthropic"}}
    /\ correlation_call = NoCorrelationCall
    /\ AutomationInit

\* A request arrives; in this specification the text resources of backend/etc
\* cannot be read.
Chat(conversation_id, message) ==
    /\ Len(requests) < MaxRequests
    /\ LET out == ChatArrives(conversations, conversation_memory, conversation_id, message,
                              FallbackExclamation, FallbackJoke)
           cid == EffectiveId(conversation_id)
       IN  /\ conversations' = out.convs
           /\ conversation_memory' = out.mem
           /\ appended' = Counted(appended, cid, out.appends)
           /\ requests' = Append(requests, out.request)
           /\ engine_call' = EngineCall(conversations, cid, message,
                                        [result |-> out.request.flow_result])
    /\ calls' = calls + 1
    /\ UNCHANGED <<llm_clients, correlation_call, automation>>

MonitoringReturns(i, failed, context_outcome, order) ==
    /\ requests[i].pc = "await_monitoring"
    /\ LET out == AfterMonitoring(requests[i], conversation_memory, llm_clients, failed,
                                  context_outcome, order)
       IN  /\ conversation_memory' = out.mem
           /\ appended' = Counted(appended, requests[i].conversation_id, out.appends)
           /\ requests' = [requests EXCEPT ![i] = out.request]
    /\ UNCHANGED <<conversations, engine_call, calls, llm_clients, correlation_call, automation>>

LLMReturns(i, outcome) ==
    /\ requests[i].pc = "await_llm"
    /\ LET out == AfterLLM(requests[i], conversation_memory, llm_clients, outcome)
       IN  /\ conversation_memory' = out.mem
           /\ appended' = Counted(appended, requests[i].conversation_id, out.appends)
           /\ requests' = [requests EXCEPT ![i] = out.request]
    /\ UNCHANGED <<conversations, engine_call, calls, llm_clients, correlation_call, automation>>

Awaiting(pc) == {i \in 1..Len(requests) : requests[i].pc = pc}

Next ==
    \/ \E conversation_id \in ChatIds, m \in ChatMessages : Chat(conversation_id, m)
    \/ \E i \in Awaiting("await_monitoring"), failed \in FailureSets :
           \E context_outcome \in IncidentContextOutcomes(query_recent_changes(2, failed)),
              order \in IterationOrders(ServicesWithIssues(query_recent_changes(2, failed))) :
               MonitoringReturns(i, failed, context_outcome, order)
    \/ \E i \in Awaiting("await_llm"), outcome \in LLMOutcomes : LLMReturns(i, outcome)

Spec == Init /\ [][Next]_vars

----------------------------------------------------------------------------
(* SpecWarm: the /chat endpoint once a conversation is under way.  It      *)
(* starts in the state that six requests of the conversation "default",    *)
(* each answered before the next arrives, leave behind: three messages the *)
(* region question does not recognise, then "EMEA", "1" and "Acme Corp".   *)
(* The session is in customer_process and the history holds twelve         *)
(* messages, so that the requests that follow reach the LLM call with more *)
(* history than the call is given.                                         *)

WarmUp == <<M_Acme, M_Acme, M_Acme, M_EMEA, kw_1, M_Acme>>

\* the state after the first n requests of WarmUp
RECURSIVE Warm(_)
Warm(n) ==
    IF n = 0
    THEN [convs |-> <<>>, mem |-> <<>>, appended |-> <<>>, requests |-> <<>>,
          engine_call |-> NoCall]
    ELSE LET w == Warm(n - 1)
             out == ChatArrives(w.convs, w.mem, None, WarmUp[n],
                                FallbackExclamation, FallbackJoke)
         IN  [convs |-> out.convs,
              mem |-> out.mem,
              appended |-> Counted(w.appended, DefaultId, out.appends),
              requests |-> Append(w.requests, out.request),
              engine_call |-> EngineCall(w.convs, DefaultId, WarmUp[n],
                                         [result |-> out.request.flow_result])]

MaxWarmRequests == 2

\* Start-up had the key of one provider, or of both.
WarmInit ==
    /\ LET w == Warm(Len(WarmUp))
       IN  /\ conversations = w.convs
           /\ engine_call = w.engine_call
           /\ conversation_memory = w.mem
           /\ appended = w.appended
           /\ requests = w.requests
    /\ calls = Len(WarmUp)
    /\ llm_clients \in {{"openai"}, {"anthropic"}, {"openai", "anthropic"}}
    /\ correlation_call = NoCorrelationCall
    /\ AutomationInit

\* A further request of the conversation "default" arrives.
WarmChat(message) ==
    /\ Len(requests) < Len(WarmUp) + MaxWarmRequests
    /\ LET out == ChatArrives(conversations, conversation_memory, None, message,
                              FallbackExclamation, FallbackJoke)
       IN  /\ conversations' = out.convs
           /\ conversation_memory' = out.mem
           /\ appended' = Counted(appended, DefaultId, out.appends)
           /\ requests' = Append(requests, out.request)
           /\ engine_call' = EngineCall(conversations, DefaultId, message,
                                        [result |-> out.request.flow_result])
    /\ calls' = calls + 1
    /\ UNCHANGED <<llm_clients, correlation_call, automation>>

WarmNext ==
    \/ \E m \in ChatMessages : WarmChat(m)
    \/ \E i \in Awaiting("await_monitoring"), failed \in FailureSets :
           \E context_outcome \in IncidentContextOutcomes(query_recent_changes(2, failed)),
              order \in IterationOrders(ServicesWithIssues(query_recent_changes(2, failed))) :
               MonitoringReturns(i, failed, context_outcome, order)
    \/ \E i \in Awaiting("await_llm"), outcome \in LLMOutcomes : LLMReturns(i, outcome)

SpecWarm == WarmInit /\ [][WarmNext]_vars

----------------------------------------------------------------------------
(* SpecRules: the /chat endpoint past the Dialogue Engine.  It starts as   *)
(* SpecWarm does, with the session "default" in customer_process, so that  *)
(* every request is handed over to the monitoring queries; no provider key *)
(* is set, or that of one provider; and the messages are those the         *)
(* rule-based branches tell apart.                                         *)

\* "what changed in the last 3 hours"
R_Last3 ==
    <<"w", "h", "a", "t", " ", "c", "h", "a", "n", "g", "e", "d", " ", "i", "n", " ",
      "t", "h", "e", " ", "l", "a", "s", "t", " ", "3", " ", "h", "o", "u", "r", "s">>

\* "What changed"
R_WhatChanged ==
    <<"W", "h", "a", "t", " ", "c", "h", "a", "n", "g", "e", "d">>

\* "Recent changes: error details"
R_Both ==
    <<"R", "e", "c", "e", "n", "t", " ", "c", "h", "a", "n", "g", "e", "s", ":", " ",
      "e", "r", "r", "o", "r", " ", "d", "e", "t", "a", "i", "l", "s">>

\* "error pattern"
R_ErrorPattern ==
    <<"e", "r", "r", "o", "r", " ", "p", "a", "t", "t", "e", "r", "n">>

\* "what changed 12hours or 5 hours"
R_TwoCounts ==
    <<"w", "h", "a", "t", " ", "c", "h", "a", "n", "g", "e", "d", " ", "1", "2", "h",
      "o", "u", "r", "s", " ", "o", "r", " ", "5", " ", "h", "o", "u", "r", "s">>

\* "recent changes, 1 hour"
R_OneHour ==
    <<"r", "e", "c", "e", "n", "t", " ", "c", "h", "a", "n", "g", "e", "s", ",", " ",
      "1", " ", "h", "o", "u", "r">>

\* "what changed this hour"
R_ThisHour ==
    <<"w", "h", "a", "t", " ", "c", "h", "a", "n", "g", "e", "d", " ", "t", "h", "i",
      "s", " ", "h", "o", "u", "r">>

RuleMessages ==
    {R_Last3, R_WhatChanged, R_Both, R_ErrorPattern, R_TwoCounts, R_OneHour, R_ThisHour,
     M_Acme}

\* What goes wrong at the sources in a request: any set of queries raises, or
\* one of the time faults occurs, alone or next to a raising query.
RuleFailureSets ==
    (SUBSET Sources)
        \cup {{"deployments.timestamp"}, {"errors.first_seen"},
              {"deployments", "errors.first_seen"}, {"anomalies", "errors.first_seen"}}

MaxRuleRequests == 2

RuleInit ==
    /\ LET w == Warm(Len(WarmUp))
       IN  /\ conversations = w.convs
           /\ engine_call = w.engine_call
           /\ conversation_memory = w.mem
           /\ appended = w.appended
           /\ requests = w.requests
    /\ calls = Len(WarmUp)
    /\ llm_clients \in {{}, {"openai"}}
    /\ correlation_call = NoCorrelationCall
    /\ AutomationInit

\* A further request of the conversation "default" arrives.
RuleChat(message) ==
    /\ Len(requests) < Len(WarmUp) + MaxRuleRequests
    /\ LET out == ChatArrives(conversations, conversation_memory, None, message,
                              FallbackExclamation, FallbackJoke)
       IN  /\ conversations' = out.convs
           /\ conversation_memory' = out.mem
           /\ appended' = Counted(appended, DefaultId, out.appends)
           /\ requests' = Append(requests, out.request)
           /\ engine_call' = EngineCall(conversations, DefaultId, message,
                                        [result |-> out.request.flow_result])
    /\ calls' = calls + 1
    /\ UNCHANGED <<llm_clients, correlation_call, automation>>

RuleNext ==
    \/ \E m \in RuleMessages : RuleChat(m)
    \/ \E i \in Awaiting("await_monitoring"), failed \in RuleFailureSets :
           \E context_outcome \in IncidentContextOutcomes(query_recent_changes(2, failed)),
              order \in IterationOrders(ServicesWithIssues(query_recent_changes(2, failed))) :
               MonitoringReturns(i, failed, context_outcome, order)
    \/ \E i \in Awaiting("await_llm"), outcome \in LLMOutcomes : LLMReturns(i, outcome)

SpecRules == RuleInit /\ [][RuleNext]_vars

----------------------------------------------------------------------------
(* SpecDefault: the /chat endpoint with requests that name no conversation, *)
(* the empty one, or "c1".                                                  *)

MaxDefaultRequests == 4

\* the conversation_id of a request: absent, empty, or "c1"
DefaultChatIds == {None, Some(""), Some("c1")}

DefaultChatMessages == {M_AMER, M_EMEA, kw_1, M_Acme}

DefaultInit ==
    /\ conversations = <<>>
    /\ engine_call = NoCall
    /\ calls = 0
    /\ conversation_memory = <<>>
    /\ appended = <<>>
    /\ requests = <<>>
    /\ llm_clients \in {{}, {"openai"}}
    /\ correlation_call = NoCorrelationCall
    /\ AutomationInit

DefaultChat(conversation_id, message) ==
    /\ Len(requests) < MaxDefaultRequests
    /\ LET out == ChatArrives(conversations, conversation_memory, conversation_id, message,
                              FallbackExclamation, FallbackJoke)
           cid == EffectiveId(conversation_id)
       IN  /\ conversations' = out.convs
           /\ conversation_memory' = out.mem
           /\ appended' = Counted(appended, cid, out.appends)
           /\ requests' = Append(requests, out.request)
           /\ engine_call' = EngineCall(conversations, cid, message,
                                        [result |-> out.request.flow_result])
    /\ calls' = calls + 1
    /\ UNCHANGED <<llm_clients, correlation_call, automation>>

DefaultNext ==
    \/ \E conversation_id \in DefaultChatIds, m \in DefaultChatMessages :
           DefaultChat(conversation_id, m)
    \/ \E i \in Awaiting("await_monitoring"), failed \in FailureSets :
           \E context_outcome \in IncidentContextOutcomes(query_recent_changes(2, failed)),
              order \in IterationOrders(ServicesWithIssues(query_recent_changes(2, failed))) :
               MonitoringReturns(i, failed, context_outcome, order)
    \/ \E i \in Awaiting("await_llm"), outcome \in LLMOutcomes : LLMReturns(i, outcome)

SpecDefault == DefaultInit /\ [][DefaultNext]_vars

----------------------------------------------------------------------------
(* SpecStore: add_to_conversation driven directly.  The n-th message given *)
(* to a conversation has the text of n as its content, and the roles       *)
(* alternate, so that every message of a conversation is distinct.         *)

MaxAppends == 60

StoreInit ==
    /\ conversations = <<>>
    /\ engine_call = NoCall
    /\ calls = 0
    /\ conversation_memory = <<>>
    /\ appended = <<>>
    /\ requests = <<>>
    /\ llm_clients = {}
    /\ correlation_call = NoCorrelationCall
    /\ AutomationInit

AddToConversation(cid) ==
    /\ Count(appended, cid) < MaxAppends
    /\ LET n == Count(appended, cid) + 1
       IN  conversation_memory' =
               add_to_conversation(conversation_memory, cid,
                                   IF n % 2 = 1 THEN "user" ELSE "assistant",
                                   IntToText(n), None)
    /\ appended' = Counted(appended, cid, 1)
    /\ UNCHANGED <<conversations, engine_call, calls, requests, llm_clients, correlation_call, automation>>

StoreNext == \E cid \in ConvIds : AddToConversation(cid)

SpecStore == StoreInit /\ [][StoreNext]_vars

----------------------------------------------------------------------------
(* The Power Automate integration: power_automate.py.  A key of            *)
(* webhook_urls and the name of a ticket system are strings, so that the   *)
(* key create_ticket builds is the concatenation the f-string computes;    *)
(* a URL is one atom.  The post of a payload and the response to it are    *)
(* one exchange.                                                            *)

MaxAlerts == 3

U_Teams == "https://flows.example/teams"

U_Ticket == "https://flows.example/ticket"

Severities == {"high", "medium"}

\* what a flow answers to a post: a status and the ticket_id of the JSON body, or the post raises
Responses ==
    {[raises |-> FALSE, status |-> 200, ticket_id |-> Some("INC0012345")],
     [raises |-> FALSE, status |-> 200, ticket_id |-> None],
     [raises |-> FALSE, status |-> 500, ticket_id |-> None],
     [raises |-> TRUE, status |-> 0, ticket_id |-> None]}

\* the bodies sent to POST /power-automate/webhooks/configure
Configurations ==
    {"serviceNow_ticket" :> U_Ticket,
     "servicenow_ticket" :> U_Ticket,
     "serviceNow_ticket" :> "",
     "teams_critical" :> U_Teams,
     "teams_warning" :> U_Teams,
     "teams_critical" :> U_Teams @@ "serviceNow_ticket" :> U_Ticket}

\* dict.get(key): None for a key the dict does not hold
Get(d, key) == IF key \in DOMAIN d THEN Some(d[key]) ELSE None

\* `not url` for what dict.get returned
NoUrl(o) == o = None \/ o[1] = ""

\* an HTTP post sent while the alert at position `alert` was handled
Post(url, kind, alert) == [url |-> url, kind |-> kind, alert |-> alert]

\* configure_webhooks: only the keys webhook_urls already holds are set
configure_webhooks(urls, webhooks) ==
    [key \in DOMAIN urls |-> IF key \in DOMAIN webhooks THEN webhooks[key] ELSE urls[key]]

\* PowerAutomateIntegration.trigger_teams_notification: whether it succeeded and where it posted
trigger_teams_notification(urls, severity, response) ==
    LET teams_webhook ==
            Get(urls, IF severity = "high" THEN "teams_critical" ELSE "teams_warning")
    IN  IF NoUrl(teams_webhook)
        THEN [sent |-> FALSE, url |-> None]
        ELSE [sent |-> ~response.raises /\ response.status = 200, url |-> teams_webhook]

\* PowerAutomateIntegration.create_ticket: the ticket id it returns and where it posted
create_ticket(urls, ticket_system, response) ==
    LET webhook_key == ticket_system \o "_ticket"
        webhook_url == Get(urls, webhook_key)
    IN  IF NoUrl(webhook_url)
        THEN [ticket_id |-> None, url |-> None]
        ELSE [ticket_id |->
                  IF response.raises \/ response.status # 200
                  THEN None
                  ELSE IF response.ticket_id = None THEN Some("Unknown") ELSE response.ticket_id,
              url |-> webhook_url]

\* the default of create_ticket's ticket_system parameter
DefaultTicketSystem == "servicenow"

\* an alert as it is received: nothing attempted yet.  ticket_url is the
\* URL webhook_urls held under "serviceNow_ticket" when create_ticket ran.
Alert(route, severity, pc) ==
    [route |-> route, severity |-> severity, pc |-> pc,
     teams_attempted |-> FALSE, teams_sent |-> FALSE,
     ticket_attempted |-> FALSE, ticket_id |-> None, ticket_url |-> "",
     status |-> 0]

\* the posts a call made: one if it had a URL to post to
PostsOf(url, kind, alert) == IF url = None THEN <<>> ELSE <<Post(url[1], kind, alert)>>

\* process_incident_alert from step 2 on, up to the sleep or to the end
TicketStage(a, i, urls, response) ==
    IF a.severity = "high"
    THEN LET t == create_ticket(urls, DefaultTicketSystem, response)
         IN  [alert |-> [a EXCEPT !.ticket_attempted = TRUE, !.ticket_id = t.ticket_id,
                                  !.ticket_url = urls["serviceNow_ticket"], !.pc = "sleep"],
              posts |-> PostsOf(t.url, "ticket", i)]
    ELSE [alert |-> [a EXCEPT !.pc = "done"], posts |-> <<>>]

\* POST /power-automate/webhook/incident: the alert is queued as a background task
webhook_incident(severity) ==
    /\ Len(alerts) < MaxAlerts
    /\ alerts' = Append(alerts, [Alert("incident", severity, "received") EXCEPT !.status = 200])
    /\ UNCHANGED <<webhook_urls, posted>>
    /\ UNCHANGED <<conversations, engine_call, calls, conversation_memory, appended, requests,
                   llm_clients, correlation_call>>

\* process_incident_alert up to its first suspension: the Teams
\* notification, and, when that one posts nothing, the ticket stage too
process_incident_alert(i, teams_response, ticket_response) ==
    /\ alerts[i].pc = "received"
    /\ LET a == alerts[i]
           n == trigger_teams_notification(webhook_urls, a.severity, teams_response)
           notified == [a EXCEPT !.teams_attempted = TRUE, !.teams_sent = n.sent,
                                 !.pc = "notified"]
           rest == TicketStage(notified, i, webhook_urls, ticket_response)
       IN  IF n.url = None
           THEN /\ alerts' = [alerts EXCEPT ![i] = rest.alert]
                /\ posted' = posted \o rest.posts
           ELSE /\ alerts' = [alerts EXCEPT ![i] = notified]
                /\ posted' = posted \o PostsOf(n.url, "teams", i)
    /\ UNCHANGED webhook_urls
    /\ UNCHANGED <<conversations, engine_call, calls, conversation_memory, appended, requests,
                   llm_clients, correlation_call>>

\* process_incident_alert resumed after the Teams post: the ticket stage
AfterTeamsNotification(i, ticket_response) ==
    /\ alerts[i].pc = "notified"
    /\ LET rest == TicketStage(alerts[i], i, webhook_urls, ticket_response)
       IN  /\ alerts' = [alerts EXCEPT ![i] = rest.alert]
           /\ posted' = posted \o rest.posts
    /\ UNCHANGED webhook_urls
    /\ UNCHANGED <<conversations, engine_call, calls, conversation_memory, appended, requests,
                   llm_clients, correlation_call>>

\* process_incident_alert resumed after asyncio.sleep(300): it logs and ends
AfterSleep(i) ==
    /\ alerts[i].pc = "sleep"
    /\ alerts' = [alerts EXCEPT ![i].pc = "done"]
    /\ UNCHANGED <<webhook_urls, posted>>
    /\ UNCHANGED <<conversations, engine_call, calls, conversation_memory, appended, requests,
                   llm_clients, correlation_call>>

\* POST /power-automate/trigger/create-ticket: 500 when create_ticket returns no ticket id
trigger_create_ticket(severity, response) ==
    /\ Len(alerts) < MaxAlerts
    /\ LET i == Len(alerts) + 1
           t == create_ticket(webhook_urls, DefaultTicketSystem, response)
           a == [Alert("manual", severity, "done") EXCEPT
                     !.ticket_attempted = TRUE, !.ticket_id = t.ticket_id,
                     !.ticket_url = webhook_urls["serviceNow_ticket"],
                     !.status = IF Truthy(t.ticket_id) THEN 200 ELSE 500]
       IN  /\ alerts' = Append(alerts, a)
           /\ posted' = posted \o PostsOf(t.url, "ticket", i)
    /\ UNCHANGED webhook_urls
    /\ UNCHANGED <<conversations, engine_call, calls, conversation_memory, appended, requests,
                   llm_clients, correlation_call>>

\* POST /power-automate/webhooks/configure
ConfigureWebhooks(webhooks) ==
    /\ webhook_urls' = configure_webhooks(webhook_urls, webhooks)
    /\ UNCHANGED <<posted, alerts>>
    /\ UNCHANGED <<conversations, engine_call, calls, conversation_memory, appended, requests,
                   llm_clients, correlation_call>>

----------------------------------------------------------------------------
(* SpecAutomate: the Power Automate routes, in any order: webhook URLs are  *)
(* configured, incident alerts arrive and are processed in the background,  *)
(* and tickets are asked for by hand.                                       *)

AutomateInit ==
    /\ conversations = <<>>
    /\ engine_call = NoCall
    /\ calls = 0
    /\ conversation_memory = <<>>
    /\ appended = <<>>
    /\ requests = <<>>
    /\ llm_clients = {}
    /\ correlation_call = NoCorrelationCall
    /\ AutomationInit

AutomateNext ==
    \/ \E webhooks \in Configurations : ConfigureWebhooks(webhooks)
    \/ \E severity \in Severities : webhook_incident(severity)
    \/ \E i \in DOMAIN alerts, r1 \in Responses, r2 \in Responses :
           process_incident_alert(i, r1, r2)
    \/ \E i \in DOMAIN alerts, r \in Responses : AfterTeamsNotification(i, r)
    \/ \E i \in DOMAIN alerts : AfterSleep(i)
    \/ \E severity \in Severities, r \in Responses : trigger_create_ticket(severity, r)

SpecAutomate == AutomateInit /\ [][AutomateNext]_vars

----------------------------------------------------------------------------
(* Properties of the Dialogue Engine *)

ProcessSteps == {"customer_process", "env_process", "performance_process"}

\* the session of the last process_message call, as the call left it
After == conversations[engine_call.cid]

\* C1: every session's step is one of the ten states of the machine, and a
\* session created by a lookup is read with step = welcome.
C1_StepInClosedSet ==
    /\ \A c \in DOMAIN conversations : conversations[c].step \in Steps
    /\ engine_call.created => engine_call.before.step = "welcome"

C1_Witness ==
    /\ DOMAIN conversations = ConvIds
    /\ conversations["c1"].step = "env_process"
    /\ engine_call.cid = "c2"
    /\ engine_call.created
    /\ conversations["c2"].step = "ask_state"

\* C4: the reply of a call has use_traditional_flow = true exactly when the
\* session was in customer_process, env_process or performance_process when
\* the message arrived; the replies of the seven other steps have it false.
C4_TraditionalIffProcessStep ==
    calls > 0 =>
        (engine_call.result.use_traditional_flow
            <=> engine_call.before.step \in ProcessSteps)

C4_Witness ==
    /\ calls > 0
    /\ engine_call.before.step = "env_process"
    /\ engine_call.result.use_traditional_flow

\* C8: in step welcome a message whose lower-cased text contains "amer" sets
\* the region to AMER and the step to ask_state and is answered by the state
\* question, also when it contains "emea" too; otherwise one containing
\* "emea" sets the region to EMEA and the step to ask_help_type and is
\* answered by the help-type menu; any other message changes nothing and is
\* answered by the region question. None of the replies hands over to the
\* router.
C8_Welcome ==
    (calls > 0 /\ engine_call.before.step = "welcome") =>
        LET b == engine_call.before
            m == Lower(engine_call.message)
            r == engine_call.result
        IN  /\ r.use_traditional_flow = FALSE
            /\ IF Contains(m, kw_amer)
               THEN /\ After = [b EXCEPT !.wherami = Some("AMER"), !.step = "ask_state"]
                    /\ r.response = <<"Great! Which state?">>
                    /\ r.suggestions = <<"California", "Texas", "New York", "Florida", "Other">>
               ELSE IF Contains(m, kw_emea)
               THEN /\ After = [b EXCEPT !.wherami = Some("EMEA"), !.step = "ask_help_type"]
                    /\ r = _get_help_type_question
               ELSE /\ After = b
                    /\ r.response = <<"I didn't catch that! Please let me know - are you writing in from AMER or EMEA?">>
                    /\ r.suggestions = <<"AMER", "EMEA">>

C8_Witness ==
    /\ calls > 0
    /\ engine_call.before.step = "welcome"
    /\ engine_call.message = M_EMEA_AMER
    /\ After.step = "ask_state"
    /\ After.wherami = Some("AMER")

\* C9: a session in ask_state has region AMER (so a session with region EMEA
\* is never in ask_state), and a call that leaves its session in ask_state
\* found it in welcome and was given a message containing "amer".
C9_AskStateOnlyFromAmer ==
    /\ \A c \in DOMAIN conversations :
            conversations[c].step = "ask_state" => conversations[c].wherami = Some("AMER")
    /\ (calls > 0 /\ After.step = "ask_state") =>
            /\ engine_call.before.step = "welcome"
            /\ Contains(Lower(engine_call.message), kw_amer)

C9_Witness ==
    /\ DOMAIN conversations = ConvIds
    /\ conversations["c1"].step = "ask_state"
    /\ conversations["c2"].wherami = Some("EMEA")

\* C10: in ask_state any message becomes the locality exactly as sent, the
\* step becomes ask_help_type, no other field changes and the reply is the
\* help-type menu; in ask_state and in ask_help_type no message changes the
\* region.
C10_AskState ==
    calls > 0 =>
        LET b == engine_call.before
        IN  /\ b.step = "ask_state" =>
                /\ After = [b EXCEPT !.state = Some(engine_call.message),
                                     !.step = "ask_help_type"]
                /\ engine_call.result = _get_help_type_question
            /\ b.step \in {"ask_state", "ask_help_type"} => After.wherami = b.wherami

C10_Witness ==
    /\ calls > 0
    /\ engine_call.before.step = "ask_state"
    /\ engine_call.message = M_AMER
    /\ After.state = Some(M_AMER)
    /\ After.wherami = Some("AMER")

\* the state four process_message calls reach on a fresh store when they are
\* a message selecting AMER, "Texas", a message selecting the customer menu
\* entry and "Acme Corp", all on conversation c1: the fourth call found the
\* session in ask_customer and was given "Acme Corp"
AfterAcmeCorp ==
    /\ calls = 4
    /\ DOMAIN conversations = {"c1"}
    /\ engine_call.cid = "c1"
    /\ engine_call.message = M_Acme
    /\ engine_call.before =
           [NewSession EXCEPT !.step = "ask_customer", !.wherami = Some("AMER"),
                              !.state = Some(M_Texas), !.issue_type = Some("customer")]

\* the state a fifth call on c1 reaches from there
AfterFifthMessage ==
    /\ calls = 5
    /\ DOMAIN conversations = {"c1"}
    /\ engine_call.cid = "c1"
    /\ engine_call.before =
           [NewSession EXCEPT !.step = "customer_process", !.wherami = Some("AMER"),
                              !.state = Some(M_Texas), !.issue_type = Some("customer"),
                              !.customer = Some(M_Acme)]

\* C2, as claimed: after "AMER", "Texas", "1", "Acme Corp" the session is in
\* customer_process with customer "Acme Corp", and the fourth reply has
\* use_traditional_flow = true and a focus containing "customer Acme Corp".
C2_FourthReplyTraditional ==
    AfterAcmeCorp =>
        /\ After.step = "customer_process"
        /\ After.customer = Some(M_Acme)
        /\ engine_call.result.use_traditional_flow
        /\ engine_call.result.focus # None
        /\ Contains(engine_call.result.focus[1], pre_customer \o M_Acme)

\* C2, amended: after "AMER", "Texas", "1", "Acme Corp" the session is in
\* customer_process with customer "Acme Corp" and the fourth reply is the
\* initial-response reply, with use_traditional_flow = false and no focus; it
\* is the reply to the fifth message that has use_traditional_flow = true and
\* the focus "customer Acme Corp", and that message leaves the session as it is.
C2_FifthReplyTraditional ==
    /\ AfterAcmeCorp =>
        /\ After.step = "customer_process"
        /\ After.customer = Some(M_Acme)
        /\ engine_call.result.use_traditional_flow = FALSE
        /\ engine_call.result.focus = None
        /\ engine_call.result.suggestions =
               <<"Continue with analysis", "Ask more questions", "Start over">>
    /\ AfterFifthMessage =>
        /\ After = engine_call.before
        /\ engine_call.result.use_traditional_flow
        /\ engine_call.result.focus = Some(pre_customer \o M_Acme)

C2_Witness ==
    /\ AfterFifthMessage
    /\ engine_call.result.use_traditional_flow
    /\ Contains(engine_call.result.focus[1], pre_customer \o M_Acme)

\* whether the lower-cased message of the last call contains one of two triggers
Triggered(digit, word) ==
    LET m == Lower(engine_call.message)
    IN  Contains(m, digit) \/ Contains(m, word)

\* C11: in ask_help_type the triggers are tried in the order ("1", "customer"),
\* ("2", "environment"), ("3", "performance"), ("4", "lunch") on the
\* lower-cased message and the first pair with a trigger in the message decides:
\* issue_type and step become customer/ask_customer, environment/ask_environment,
\* performance/ask_performance or lunch/lunch_process, and nothing else changes.
C11_HelpTypeFirstMatch ==
    (calls > 0 /\ engine_call.before.step = "ask_help_type") =>
        LET b == engine_call.before
            t1 == Triggered(kw_1, kw_customer)
            t2 == Triggered(kw_2, kw_environment)
            t3 == Triggered(kw_3, kw_performance)
            t4 == Triggered(kw_4, kw_lunch)
        IN  /\ t1 =>
                After = [b EXCEPT !.issue_type = Some("customer"), !.step = "ask_customer"]
            /\ (~t1 /\ t2) =>
                After = [b EXCEPT !.issue_type = Some("environment"),
                                  !.step = "ask_environment"]
            /\ (~t1 /\ ~t2 /\ t3) =>
                After = [b EXCEPT !.issue_type = Some("performance"),
                                  !.step = "ask_performance"]
            /\ (~t1 /\ ~t2 /\ ~t3 /\ t4) =>
                After = [b EXCEPT !.issue_type = Some("lunch"), !.step = "lunch_process"]

\* "Lunch 1" contains a trigger of the fourth pair and one of the first
C11_Witness ==
    /\ calls > 0
    /\ engine_call.before.step = "ask_help_type"
    /\ engine_call.message = M_Lunch1
    /\ After.step = "ask_customer"
    /\ After.issue_type = Some("customer")

NoTrigger ==
    ~(\/ Triggered(kw_1, kw_customer) \/ Triggered(kw_2, kw_environment)
      \/ Triggered(kw_3, kw_performance) \/ Triggered(kw_4, kw_lunch))

\* C12, as claimed: in ask_help_type a message with none of the eight triggers
\* is answered by the help-type menu verbatim, the reply given when the session
\* entered ask_help_type, and the session is left as it was.
C12_RepeatsMenuVerbatim ==
    (calls > 0 /\ engine_call.before.step = "ask_help_type" /\ NoTrigger) =>
        /\ engine_call.result = _get_help_type_question
        /\ After = engine_call.before

\* C12, amended: in ask_help_type a message with none of the eight triggers
\* leaves the session as it was (step ask_help_type) and is answered by a reply
\* of its own, "I didn't understand that. Please choose from the options:"
\* followed by the four options of the menu, with the menu's four suggestions
\* and use_traditional_flow = false; its text is not the menu's text.
C12_RepeatsOptions ==
    (calls > 0 /\ engine_call.before.step = "ask_help_type" /\ NoTrigger) =>
        /\ After = engine_call.before
        /\ After.step = "ask_help_type"
        /\ engine_call.result.response =
               <<"I didn't understand that. Please choose from the options:\n\n1. A specific customer\n2. A specific environment\n3. A generic performance issue\n4. Lunch">>
        /\ engine_call.result.response # _get_help_type_question.response
        /\ engine_call.result.suggestions = _get_help_type_question.suggestions
        /\ engine_call.result.use_traditional_flow = FALSE

C12_Witness ==
    /\ calls > 1
    /\ engine_call.before.step = "ask_help_type"
    /\ engine_call.before.wherami = Some("EMEA")
    /\ engine_call.message = M_Texas
    /\ After.step = "ask_help_type"

\* the shape of the initial-response reply for a session: the opening
\* sentence, an exclamation, the sentence announcing the joke, a joke, and the
\* food sentence of the session's region
IsInitialResponse(r, session) ==
    /\ r.use_traditional_flow = FALSE
    /\ r.focus = None
    /\ r.suggestions = <<"Continue with analysis", "Ask more questions", "Start over">>
    /\ Len(r.response) >= 5
    /\ r.response[1] = "My team says 'It's definitely not a database issue... but let me 2x check.'\n\n"
    /\ <<r.response[2]>> \in Exclamations
    /\ r.response[3] = ". Your monitoring guys are good... there is a ton of data to check... it will take a bit. Here is a Dad joke while you wait:\n\n"
    /\ <<r.response[4]>> \in Jokes
    /\ IF session.wherami = Some("AMER") /\ Truthy(session.state)
       THEN /\ r.response[Len(r.response)] = "&top3"
            /\ SubSeq(r.response, 7, Len(r.response) - 1) = session.state[1]
       ELSE IF session.wherami = Some("EMEA")
       THEN /\ Len(r.response) = 6
            /\ r.response[6] = "Oh. R365 does not have many customer locations in EMEA...yet. :)"
       ELSE Len(r.response) = 5

\* C13: in ask_customer, ask_environment and ask_performance any message is
\* stored exactly as sent in customer, environment and performance_details,
\* the step becomes customer_process, env_process and performance_process, no
\* other field changes, and the reply is the initial-response reply.
C13_Capture ==
    calls > 0 =>
        LET b == engine_call.before
            m == engine_call.message
        IN  /\ b.step = "ask_customer" =>
                /\ After = [b EXCEPT !.customer = Some(m), !.step = "customer_process"]
                /\ IsInitialResponse(engine_call.result, After)
            /\ b.step = "ask_environment" =>
                /\ After = [b EXCEPT !.environment = Some(m), !.step = "env_process"]
                /\ IsInitialResponse(engine_call.result, After)
            /\ b.step = "ask_performance" =>
                /\ After = [b EXCEPT !.performance_details = Some(m),
                                     !.step = "performance_process"]
                /\ IsInitialResponse(engine_call.result, After)

C13_Witness ==
    /\ calls > 0
    /\ engine_call.before.step = "ask_environment"
    /\ engine_call.before.wherami = Some("AMER")
    /\ engine_call.before.state = Some(M_Texas)
    /\ engine_call.message = M_Acme
    /\ After.environment = Some(M_Acme)
    /\ After.customer = None
    /\ After.step = "env_process"

\* the text of an issue type, and the field that holds what the user gave for it
IssueTypeText(issue_type) ==
    CASE issue_type = Some("customer") -> kw_customer
      [] issue_type = Some("environment") -> kw_environment
      [] issue_type = Some("performance") -> kw_performance
      [] OTHER -> <<>>

Captured(session) ==
    CASE session.step = "customer_process" -> session.customer
      [] session.step = "env_process" -> session.environment
      [] session.step = "performance_process" -> session.performance_details
      [] OTHER -> None

\* C14, as claimed: in customer_process, env_process and performance_process
\* every message leaves the session unchanged and is answered with
\* use_traditional_flow = true and the focus "<issue_type> <captured value>".
C14_FocusAlways ==
    (calls > 0 /\ engine_call.before.step \in ProcessSteps) =>
        LET b == engine_call.before
        IN  /\ After = b
            /\ engine_call.result.use_traditional_flow
            /\ engine_call.result.focus =
                   Some(IssueTypeText(b.issue_type) \o <<" ">> \o Captured(b)[1])

\* C14, amended: in customer_process, env_process and performance_process every
\* message leaves the session unchanged and is answered with
\* use_traditional_flow = true; the reply carries the focus
\* "<issue_type> <captured value>" when the captured text is not empty, and
\* when the user's answer in the preceding ask_* step was the empty text the
\* reply is the generic follow-up, which has no focus.
C14_FocusWhenCaptured ==
    (calls > 0 /\ engine_call.before.step \in ProcessSteps) =>
        LET b == engine_call.before
        IN  /\ After = b
            /\ engine_call.result.use_traditional_flow
            /\ Captured(b) # None
            /\ IF Captured(b)[1] # <<>>
               THEN engine_call.result.focus =
                        Some(IssueTypeText(b.issue_type) \o <<" ">> \o Captured(b)[1])
               ELSE /\ engine_call.result.focus = None
                    /\ engine_call.result.response =
                           <<"Let me analyze that further. What specific details would you like me to investigate?">>

C14_Witness ==
    /\ calls > 0
    /\ engine_call.before.step = "performance_process"
    /\ engine_call.before.performance_details = Some(M_Texas)
    /\ engine_call.result.use_traditional_flow
    /\ engine_call.result.focus = Some(pre_performance \o M_Texas)

\* C16: for a session whose step is none of the ten, every message is
\* answered by the reset reply, which asks the region question again with the
\* suggestions AMER and EMEA and use_traditional_flow = false, and no field of
\* the session changes (the step included).
C16_UnknownStepResets ==
    (calls > 0 /\ engine_call.before.step \notin Steps) =>
        /\ engine_call.result.response =
               <<"I'm not sure where we are in our conversation. Let's start over! Where are you writing in from today, AMER or EMEA?">>
        /\ engine_call.result.suggestions = <<"AMER", "EMEA">>
        /\ engine_call.result.use_traditional_flow = FALSE
        /\ engine_call.result.focus = None
        /\ After = engine_call.before

C16_Witness ==
    /\ calls > 1
    /\ engine_call.before.step = "start"
    /\ engine_call.before.customer = Some(M_Acme)
    /\ engine_call.message = M_AMER
    /\ After.step = "start"

\* the fields the handler of a step names in its update
NamedFields(step) ==
    CASE step = "welcome" -> {"wherami", "step"}
      [] step = "ask_state" -> {"state", "step"}
      [] step = "ask_help_type" -> {"issue_type", "step"}
      [] step = "ask_customer" -> {"customer", "step"}
      [] step = "ask_environment" -> {"environment", "step"}
      [] step = "ask_performance" -> {"performance_details", "step"}
      [] OTHER -> {}

\* C29: a session comes into being when a call names an unseen id, with step
\* welcome and every other field unset, and the call reads that session; a
\* call on a known id reads the session as it stands; a call changes no field
\* of its session but those the handler of the step names, and no other
\* session; and no session ever disappears.
C29_SessionStore ==
    /\ [](  calls > 0 =>
              /\ engine_call.created =>
                     engine_call.before =
                         [step |-> "welcome", wherami |-> None, state |-> None,
                          issue_type |-> None, customer |-> None, environment |-> None,
                          performance_details |-> None, completed_steps |-> <<>>]
              /\ DOMAIN After = DOMAIN engine_call.before
              /\ \A f \in DOMAIN After :
                     After[f] # engine_call.before[f] =>
                         f \in NamedFields(engine_call.before.step) )
    /\ [][ /\ DOMAIN conversations \subseteq DOMAIN conversations'
           /\ \A c \in DOMAIN conversations :
                  /\ engine_call'.cid = c =>
                         (~engine_call'.created /\ engine_call'.before = conversations[c])
                  /\ engine_call'.cid # c => conversations'[c] = conversations[c]
           /\ \A c \in DOMAIN conversations' \ DOMAIN conversations :
                  engine_call'.cid = c /\ engine_call'.created ]_vars

\* the fifth call stores the customer of c1 next to the region and the state
\* stored before, while c2 is as its creation left it
C29_Witness ==
    /\ DOMAIN conversations = ConvIds
    /\ engine_call.cid = "c1"
    /\ engine_call.before.step = "ask_customer"
    /\ After = [engine_call.before EXCEPT !.customer = Some(M_Acme),
                                          !.step = "customer_process"]
    /\ After.wherami = Some("AMER")
    /\ After.state = Some(M_Texas)
    /\ conversations["c2"] = NewSession

\* the locality of a session is known
LocalityKnown(session) == session.state # None /\ session.state[1] # <<>>

LocationLine(locality) ==
    <<"Staying PRODUCTIVE means you should keep energized with some sustenance. Try checking out one of these R365 customer locations: http://10.10.4.6/dashboards/food/main.html?state=">>
    \o locality \o <<"&top3">>

EmeaLine == <<"Oh. R365 does not have many customer locations in EMEA...yet. :)">>

\* C32: the initial-response reply (the reply to a message in ask_customer,
\* ask_environment or ask_performance) ends, after the joke and a blank line,
\* with the location line carrying the locality when the region is AMER and
\* the locality is known, with the EMEA line when the region is EMEA, and
\* with nothing otherwise; its exclamation is "Wow" when exclamation.txt
\* cannot be opened and its joke is the cache joke when there is no joke file
\* or the file cannot be opened.
C32_InitialResponseText ==
    (calls > 0 /\ engine_call.before.step \in LoadingSteps) =>
        LET resp == engine_call.result.response
            extra == SubSeq(resp, 6, Len(resp))
        IN  /\ Len(resp) >= 5
            /\ resp[5] = "\n\n"
            /\ extra =
                  (IF After.wherami = Some("AMER") /\ LocalityKnown(After)
                   THEN LocationLine(After.state[1])
                   ELSE IF After.wherami = Some("EMEA") THEN EmeaLine
                   ELSE <<>>)
            /\ engine_call.resources.exclamation_file = None => resp[2] = "Wow"
            /\ (\/ engine_call.resources.joke_files = <<>>
                \/ engine_call.resources.joke_files = <<None>>) =>
                   resp[4] = "Why did the developer go broke? Because he used up all his cache!"

\* an AMER session with locality Texas gets the initial-response reply while
\* exclamation.txt cannot be opened and the one joke file cannot either
C32_Witness ==
    /\ calls > 0
    /\ engine_call.before.step = "ask_customer"
    /\ After.wherami = Some("AMER")
    /\ After.state = Some(M_Texas)
    /\ engine_call.resources = [exclamation_file |-> None, joke_files |-> <<None>>]
    /\ engine_call.result.response[2] = "Wow"
    /\ SubSeq(engine_call.result.response, 6, Len(engine_call.result.response))
           = LocationLine(M_Texas)

\* the message of the last call, as the help-type handler gets it, selects
\* lunch: it names lunch and none of the three choices tried before it
SelectsLunch ==
    LET m == Strip(Lower(engine_call.message))
    IN  /\ Contains(m, kw_4) \/ Contains(m, kw_lunch)
        /\ ~(Contains(m, kw_1) \/ Contains(m, kw_customer))
        /\ ~(Contains(m, kw_2) \/ Contains(m, kw_environment))
        /\ ~(Contains(m, kw_3) \/ Contains(m, kw_performance))

\* C33: a message that selects lunch in ask_help_type is answered in the same
\* call with the lunch reply: with the listing URL and the locality in it
\* when the session's locality is known, with the request to specify the
\* state otherwise; use_traditional_flow is false and the step is
\* lunch_process.
C33_LunchReply ==
    (calls > 0 /\ engine_call.before.step = "ask_help_type" /\ SelectsLunch) =>
        /\ After.step = "lunch_process"
        /\ After.issue_type = Some("lunch")
        /\ engine_call.result.use_traditional_flow = FALSE
        /\ engine_call.result.response =
               (IF LocalityKnown(engine_call.before)
                THEN <<"I am not fantastic with geography yet, so cannot narrow down a list to something close by. BUT.. here are all known R365 customer locations in: [">>
                     \o engine_call.before.state[1]
                     \o <<"](http://10.10.4.6/dashboards/food/main.html?state=">>
                     \o engine_call.before.state[1] \o <<")">>
                ELSE <<"I am not fantastic with geography yet, so cannot narrow down a list to something close by. BUT.. here are all known R365 customer locations (please specify your state for better results).">>)

\* "4" sent to an AMER session whose locality is Texas
C33_Witness ==
    /\ calls > 0
    /\ engine_call.before.step = "ask_help_type"
    /\ engine_call.before.state = Some(M_Texas)
    /\ engine_call.message = kw_4
    /\ SelectsLunch
    /\ After.step = "lunch_process"
    /\ Len(engine_call.result.response) = 2 * Len(M_Texas) + 3

\* how far along welcome -> ask_state -> ask_help_type -> ask_* -> *_process
\* a step is
Rank(step) ==
    CASE step = "welcome" -> 0
      [] step = "ask_state" -> 1
      [] step = "ask_help_type" -> 2
      [] step \in {"ask_customer", "ask_environment", "ask_performance"} -> 3
      [] step \in {"customer_process", "env_process", "performance_process",
                   "lunch_process"} -> 4

\* C34: in every step of every session the step stays as it is or moves
\* forward along welcome -> ask_state -> ask_help_type -> ask_* -> *_process;
\* so a step that has left welcome never is welcome again, and a step that is
\* customer_process, env_process, performance_process or lunch_process never
\* changes, whatever is sent, "Start over" and "Start new analysis" included.
C34_StepOnlyForward ==
    [][ \A c \in DOMAIN conversations :
            LET step == conversations[c].step
                next == conversations'[c].step
            IN  /\ next = step \/ Rank(next) > Rank(step)
                /\ step # "welcome" => next # "welcome"
                /\ Rank(step) = 4 => next = step ]_vars

\* "Start new analysis" was sent to c1 in lunch_process and "Start over" had
\* been sent to c2 in its second step: both are where they were
C34_Witness ==
    /\ calls > 0
    /\ engine_call.cid = "c1"
    /\ engine_call.before.step = "lunch_process"
    /\ engine_call.message = M_StartNew
    /\ After.step = "lunch_process"
    /\ "c2" \in DOMAIN conversations
    /\ conversations["c2"].step = "ask_help_type"

\* C35: in every session the region is unset iff the step is welcome; the
\* issue type is unset iff the step is welcome, ask_state or ask_help_type;
\* in ask_customer and customer_process it is customer, in ask_environment
\* and env_process environment, in ask_performance and performance_process
\* performance, in lunch_process lunch; customer, environment and
\* performance_details are set (be it to the empty text) iff the step is
\* customer_process, env_process and performance_process, so at most one of
\* them is; and completed_steps is empty.
C35_FieldsFollowStep ==
    \A c \in DOMAIN conversations :
        LET s == conversations[c]
        IN  /\ s.wherami = None <=> s.step = "welcome"
            /\ s.issue_type = None <=> s.step \in {"welcome", "ask_state", "ask_help_type"}
            /\ s.step \in {"ask_customer", "customer_process"} =>
                   s.issue_type = Some("customer")
            /\ s.step \in {"ask_environment", "env_process"} =>
                   s.issue_type = Some("environment")
            /\ s.step \in {"ask_performance", "performance_process"} =>
                   s.issue_type = Some("performance")
            /\ s.step = "lunch_process" => s.issue_type = Some("lunch")
            /\ s.customer # None <=> s.step = "customer_process"
            /\ s.environment # None <=> s.step = "env_process"
            /\ s.performance_details # None <=> s.step = "performance_process"
            /\ Cardinality({f \in {"customer", "environment", "performance_details"} :
                               s[f] # None}) <= 1
            /\ s.completed_steps = <<>>

\* c1 has given its performance details (the empty message) and c2 has
\* only named its region
C35_Witness ==
    /\ DOMAIN conversations = ConvIds
    /\ conversations["c1"].step = "performance_process"
    /\ conversations["c1"].performance_details = Some(M_empty)
    /\ conversations["c1"].issue_type = Some("performance")
    /\ conversations["c2"].step = "ask_state"
    /\ conversations["c2"].wherami = Some("AMER")

SpecifyStateReply ==
    <<"I am not fantastic with geography yet, so cannot narrow down a list to something close by. BUT.. here are all known R365 customer locations (please specify your state for better results).">>

\* C36: a session has a locality only if its region is AMER and its step is
\* past ask_state, so a session of region EMEA has none; the lunch reply to
\* an EMEA session is the one that asks for the state, and the
\* initial-response reply to an EMEA session ends with the EMEA line and
\* holds no location URL.
C36_LocalityOnlyAmer ==
    /\ \A c \in DOMAIN conversations :
           LET s == conversations[c]
           IN  /\ s.state # None =>
                      s.wherami = Some("AMER") /\ s.step \notin {"welcome", "ask_state"}
               /\ s.wherami = Some("EMEA") => s.state = None
    /\ (calls > 0 /\ engine_call.before.wherami = Some("EMEA")) =>
           /\ (engine_call.before.step = "ask_help_type" /\ After.step = "lunch_process") =>
                  engine_call.result.response = SpecifyStateReply
           /\ engine_call.before.step \in LoadingSteps =>
                  /\ SubSeq(engine_call.result.response, 6,
                            Len(engine_call.result.response)) = EmeaLine
                  /\ \A k \in 1..Len(engine_call.result.response) :
                         engine_call.result.response[k] # LocationLine(<<>>)[1]

\* c1 chose EMEA and then lunch, after c2 chose AMER and named Texas
C36_Witness ==
    /\ calls > 0
    /\ engine_call.cid = "c1"
    /\ engine_call.before.wherami = Some("EMEA")
    /\ engine_call.before.step = "ask_help_type"
    /\ After.step = "lunch_process"
    /\ engine_call.result.response = SpecifyStateReply
    /\ "c2" \in DOMAIN conversations
    /\ conversations["c2"].wherami = Some("AMER")
    /\ conversations["c2"].state = Some(M_Texas)

----------------------------------------------------------------------------
(* Properties of the Conversation Store *)

Min(a, b) == IF a < b THEN a ELSE b

\* C5: a history holds at most 50 messages and is the last min(n, 50) of the n
\* messages appended to its conversation, in the order they were appended
\* (the n-th message appended carries the text of n).
C5_HistoryIsLast50 ==
    \A cid \in DOMAIN conversation_memory :
        LET h == conversation_memory[cid]
            n == Count(appended, cid)
        IN  /\ Len(h) <= 50
            /\ Len(h) = Min(n, 50)
            /\ \A i \in 1..Len(h) :
                   h[i] = ConversationMessage(
                              IF (n - Len(h) + i) % 2 = 1 THEN "user" ELSE "assistant",
                              IntToText(n - Len(h) + i), None)

\* sixty messages appended to c1: the history is messages 11 to 60
C5_Witness ==
    /\ Count(appended, "c1") = 60
    /\ Len(conversation_memory["c1"]) = 50
    /\ conversation_memory["c1"][1].content = <<"1", "1">>
    /\ conversation_memory["c1"][50].content = <<"6", "0">>

----------------------------------------------------------------------------
(* Properties of the Response Router *)

Done(i) == requests[i].pc = "done"

History(cid) == get_conversation_history(conversation_memory, cid)

\* C3: a request whose LLM call raised ends with status 200 and
\* analysis_type = traditional, and its rule-based reply is the last message
\* it appended to the history.
C3_LLMFailureFallsBack ==
    \A i \in 1..Len(requests) :
        requests[i].llm_outcome = "raise" =>
            /\ requests[i].status = 200
            /\ requests[i].response # None
            /\ requests[i].response[1].analysis_type = "traditional"
            /\ \E k \in 1..Len(History(requests[i].conversation_id)) :
                   History(requests[i].conversation_id)[k] =
                       ConversationMessage("assistant", requests[i].response[1].response, None)

\* C6: the requests of one conversation id are serialized, so in every history
\* an assistant message comes right after a user message (the one it answers).
C6_ReplyFollowsItsMessage ==
    \A cid \in DOMAIN conversation_memory :
        \A k \in 1..Len(conversation_memory[cid]) :
            conversation_memory[cid][k].role = "assistant" =>
                k > 1 /\ conversation_memory[cid][k - 1].role = "user"

\* C7: a request that has finished has appended its whole turn: the history
\* of its conversation holds the user's message and the reply to it.
C7_TurnAppended ==
    \A i \in 1..Len(requests) :
        Done(i) =>
            LET h == History(requests[i].conversation_id)
            IN  /\ \E k \in 1..Len(h) :
                       h[k].role = "user" /\ h[k].content = requests[i].message
                /\ requests[i].response # None
                /\ \E k \in 1..Len(h) :
                       h[k].role = "assistant"
                           /\ h[k].content = requests[i].response[1].response

\* the request of the last process_message call (each request makes one call)
LastRequest == requests[Len(requests)]

\* C15: a message to a session in lunch_process leaves the session unchanged
\* and gets the closing lunch reply, with use_traditional_flow = false, so its
\* request ends at once with analysis_type = conversation_flow, without a
\* monitoring fetch and without an LLM call; and a session in lunch_process
\* stays as it is for good, so this holds of all its later requests.
C15_LunchIsTerminal ==
    /\ [](  (calls > 0 /\ engine_call.before.step = "lunch_process") =>
              /\ After = engine_call.before
              /\ LastRequest.flow_result =
                     Reply(<<"Hope you find a great place for lunch! Anything else I can help you with?">>,
                           <<"Start new analysis", "Customer issue", "Environment check">>,
                           FALSE, None)
              /\ LastRequest.pc = "done"
              /\ LastRequest.status = 200
              /\ LastRequest.response[1].analysis_type = "conversation_flow"
              /\ LastRequest.response[1].response = LastRequest.flow_result.response
              /\ LastRequest.data = None
              /\ LastRequest.context = None
              /\ LastRequest.llm_outcome = "" )
    /\ [][ \A c \in DOMAIN conversations :
               conversations[c].step = "lunch_process" =>
                   conversations'[c] = conversations[c] ]_vars

C15_Witness ==
    /\ Len(requests) >= 4
    /\ engine_call.before.step = "lunch_process"
    /\ requests[Len(requests) - 1].flow_result.response =
           <<"Hope you find a great place for lunch! Anything else I can help you with?">>
    /\ LastRequest.response[1].analysis_type = "conversation_flow"

\* C17: a request whose Dialogue Engine reply has use_traditional_flow = false
\* is over when it has arrived: it is answered with status 200 by the engine's
\* reply and suggestions, no data and analysis_type = conversation_flow, it has
\* no monitoring data, no LLM context and no LLM call, and its arrival appends
\* to the history of its conversation exactly the user message and then the
\* engine's reply, and nothing to any other history.
C17_ConversationFlowTerminal ==
    /\ [](  \A i \in 1..Len(requests) :
              ~requests[i].flow_result.use_traditional_flow =>
                  /\ requests[i].pc = "done"
                  /\ requests[i].status = 200
                  /\ requests[i].response =
                         Some(ChatResponse(requests[i].flow_result.response, <<>>,
                                           requests[i].flow_result.suggestions, None,
                                           "conversation_flow"))
                  /\ requests[i].data = None
                  /\ requests[i].context = None
                  /\ requests[i].llm_outcome = "" )
    /\ [][ (/\ Len(requests') = Len(requests) + 1
            /\ ~requests'[Len(requests')].flow_result.use_traditional_flow) =>
               LET r == requests'[Len(requests')]
                   cid == r.conversation_id
               IN  /\ conversation_memory'[cid] =
                          History(cid)
                              \o << ConversationMessage("user", r.message, None),
                                    ConversationMessage("assistant", r.flow_result.response,
                                                        None) >>
                   /\ \A c \in DOMAIN conversation_memory \ {cid} :
                          conversation_memory'[c] = conversation_memory[c]
                   /\ Count(appended', cid) = Count(appended, cid) + 2 ]_vars

C17_Witness ==
    /\ Len(requests) = 2
    /\ requests[2].conversation_id = "c1"
    /\ requests[2].message = kw_1
    /\ requests[2].response[1].analysis_type = "conversation_flow"
    /\ Len(History("c1")) = 4
    /\ History("c1")[3] = ConversationMessage("user", kw_1, None)
    /\ History("c1")[4] = ConversationMessage("assistant", <<"Which customer?">>, None)

\* a request that came to the decision whether to use the LLM: its context
\* was built (its data is kept unless the request failed afterwards in the
\* LLM branch)
ReachedDecision(r) == r.context # None \/ r.pc = "await_llm" \/ r.llm_outcome # ""

\* C18: for every request that reaches the LLM decision the Dialogue Engine's
\* reply had use_traditional_flow = true, so the decision is true whatever the
\* message's keywords and word count, and with a provider configured the
\* request goes on to the LLM call.
C18_DecisionAlwaysTrue ==
    \A i \in 1..Len(requests) :
        ReachedDecision(requests[i]) =>
            /\ requests[i].flow_result.use_traditional_flow
            /\ UseLLM(Lower(requests[i].message), requests[i].flow_result)
            /\ llm_clients # {} =>
                   (requests[i].pc = "await_llm" \/ requests[i].llm_outcome # "")

\* "Acme Corp" has none of the keywords and two words
C18_Witness ==
    \E i \in 1..Len(requests) :
        /\ requests[i].pc = "await_llm"
        /\ requests[i].message = M_Acme
        /\ \A keyword \in LLMKeywords : ~Contains(Lower(requests[i].message), keyword)
        /\ WordCount(Lower(requests[i].message)) <= MaxWords

\* C19: with no provider configured, a request that the Dialogue Engine hands
\* over makes no LLM call and ends with status 200, a rule-based reply and
\* analysis_type = traditional.
C19_NoProviderRuleBased ==
    llm_clients = {} =>
        \A i \in 1..Len(requests) :
            requests[i].flow_result.use_traditional_flow =>
                /\ requests[i].pc # "await_llm"
                /\ requests[i].llm_outcome = ""
                /\ Done(i) =>
                       /\ requests[i].status = 200
                       /\ requests[i].response # None
                       /\ requests[i].response[1].analysis_type = "traditional"

\* C20: a request whose LLM call succeeded ends with status 200, the LLM's
\* text as its reply, analysis_type = ai_powered, the LLMResponse and the four
\* fixed suggestions, not with a rule-based text; the reply is in the history
\* as an assistant message whose metadata are the provider and the token
\* count; and a request that goes to the LLM call hands it the last ten
\* messages of the history as it is then, or all of them when there are fewer.
C20_LLMSuccess ==
    /\ [](  \A i \in 1..Len(requests) :
              requests[i].llm_outcome = "ok" =>
                  LET r == requests[i]
                      h == History(r.conversation_id)
                  IN  /\ r.pc = "done"
                      /\ r.status = 200
                      /\ r.response # None
                      /\ r.response[1].analysis_type = "ai_powered"
                      /\ r.response[1].llm_response # None
                      /\ r.response[1].llm_response[1].provider \in llm_clients
                      /\ r.response[1].response = r.response[1].llm_response[1].content
                      /\ r.response[1].response = <<"<completion>">>
                      /\ r.response[1].suggestions =
                             <<"Show me specific error details",
                               "What are the next steps to resolve this?",
                               "Check related service dependencies",
                               "Generate incident summary report">>
                      /\ \E k \in 1..Len(h) :
                             /\ h[k].role = "assistant"
                             /\ h[k].content = r.response[1].response
                             /\ h[k].metadata =
                                    Some([llm_provider |-> r.response[1].llm_response[1].provider,
                                          tokens_used |-> r.response[1].llm_response[1].tokens_used])
                      /\ Len(r.history) <= 10 )
    /\ [][ \A i \in 1..Len(requests) :
               (requests[i].pc = "await_monitoring" /\ requests'[i].pc = "await_llm") =>
                   LET h == History(requests[i].conversation_id)
                       given == requests'[i].history
                   IN  /\ Len(given) = Min(Len(h), 10)
                       /\ given = SubSeq(h, Len(h) - Len(given) + 1, Len(h)) ]_vars

\* a successful LLM call that was given ten of thirteen messages
C20_Witness ==
    \E i \in 1..Len(requests) :
        /\ requests[i].llm_outcome = "ok"
        /\ Len(requests[i].history) = 10
        /\ requests[i].history[1] = History(DefaultId)[4]
        /\ Len(History(DefaultId)) >= 14
        /\ requests[i].response[1].analysis_type = "ai_powered"

----------------------------------------------------------------------------
(* Properties of the rule-based replies *)

StartsWith(text, prefix) ==
    Len(text) >= Len(prefix) /\ SubSeq(text, 1, Len(prefix)) = prefix

\* the conditions of the first two branches, as the specification words them
MatchesChanges(query) ==
    Contains(query, kw_what_changed) \/ Contains(query, kw_recent_changes)

MatchesErrors(query) ==
    Contains(query, kw_error) /\ (Contains(query, kw_detail) \/ Contains(query, kw_pattern))

\* the requests answered by the rule-based branches
RuleAnswered ==
    {i \in 1..Len(requests) :
        /\ requests[i].pc = "done"
        /\ requests[i].status = 200
        /\ requests[i].response[1].analysis_type = "traditional"}

\* C21: a rule-based reply is that of the first branch its lower-cased
\* message matches: the changes report if it contains "what changed" or
\* "recent changes" (whether or not it also asks for error details), else the
\* error report if it contains "error" and "detail" or "pattern", else the
\* help text; and the banner of the help text is the AI-powered one exactly
\* when a provider is configured, for the configuration of the request and
\* for every other one.
C21_BranchOrder ==
    \A i \in RuleAnswered :
        LET r == requests[i]
            query == Lower(r.message)
            reply == r.response[1]
        IN  /\ MatchesChanges(query) =>
                   /\ StartsWith(reply.response, <<"## Recent Changes (Last ">>)
                   /\ reply.suggestions[1] =
                          "Analyze the correlation between deployments and errors"
            /\ (~MatchesChanges(query) /\ MatchesErrors(query)) =>
                   /\ reply.response[1] \in
                          {"## Error Analysis\n\n",
                           "No recent errors detected in the monitored services."}
                   /\ reply.suggestions[1] = "What's causing these errors?"
            /\ (~MatchesChanges(query) /\ ~MatchesErrors(query)) =>
                   /\ reply.response[1] = "## "
                   /\ reply.response[2] =
                          (IF llm_clients # {} THEN "**AI-Powered Analysis Available**"
                           ELSE "**Rule-Based Analysis**")
                   /\ reply.suggestions[1] = "Analyze what changed in the last 2 hours"
                   /\ \A clients \in SUBSET Providers :
                          RuleBased(query, r.data[1], r.correlation_analysis,
                                    clients).response[2] =
                              (IF clients # {} THEN "**AI-Powered Analysis Available**"
                               ELSE "**Rule-Based Analysis**")

\* a message that matches both conditions and one that matches neither have
\* been answered by the rule-based branches
C21_Witness ==
    /\ Len(requests) = Len(WarmUp) + 2
    /\ Len(WarmUp) + 1 \in RuleAnswered
    /\ Len(WarmUp) + 2 \in RuleAnswered
    /\ requests[Len(WarmUp) + 1].message = R_Both
    /\ MatchesChanges(Lower(R_Both)) /\ MatchesErrors(Lower(R_Both))
    /\ requests[Len(WarmUp) + 2].message = M_Acme
    /\ ~MatchesChanges(Lower(M_Acme)) /\ ~MatchesErrors(Lower(M_Acme))

\* the requests that were handed over to the monitoring queries and have ended
HandedOver ==
    {i \in 1..Len(requests) :
        requests[i].pc = "done" /\ requests[i].flow_result.use_traditional_flow}

\* the header of the changes report for n hours
ChangesHeader(n) == <<"## Recent Changes (Last ">> \o IntToText(n) \o <<" hours)\n\n">>

\* the hour count the specification gives a message: that of its first
\* "N hour(s)", or 2
StatedHours(message) ==
    CASE message = R_Last3 -> 3
      [] message = R_TwoCounts -> 12
      [] message = R_OneHour -> 1
      [] OTHER -> 2

\* C22: with no provider configured, a handed-over request whose message
\* contains "what changed" or "recent changes" (and whose monitoring records
\* carry proper times) is answered with the changes report, headed "Last N
\* hours" for the N of the first "N hour(s)" of the message, or 2 without one.
C22_HoursHeader ==
    \A i \in HandedOver :
        (/\ llm_clients = {}
         /\ MatchesChanges(Lower(requests[i].message))
         /\ requests[i].error # "ValueError") =>
            /\ requests[i].status = 200
            /\ requests[i].response # None
            /\ StartsWith(requests[i].response[1].response,
                          ChangesHeader(StatedHours(requests[i].message)))

\* what the code does keep of C22: a changes report that is rendered carries
\* the stated hour count
HeaderWhenRendered ==
    \A i \in RuleAnswered :
        MatchesChanges(Lower(requests[i].message)) =>
            StartsWith(requests[i].response[1].response,
                       ChangesHeader(StatedHours(requests[i].message)))

\* C23: a handed-over request ends with success whatever subset of the four
\* source queries raised (short of records with improper times and of a
\* failing LLM call), and the bundle it returns holds the empty sequence for
\* each source that failed and the source's records for each other.
C23_FanOutResilience ==
    \A i \in HandedOver :
        requests[i].error \notin {"ValueError", "NameError"} =>
            /\ requests[i].status = 200
            /\ requests[i].response # None
            /\ \E failed \in SUBSET Sources :
                   requests[i].response[1].data = Some(query_recent_changes(2, failed))

\* what the code does keep of C23: a handed-over request that is answered
\* returns the bundle of some set of failed queries, and the anomalies query
\* is one of them
AnsweredOnlyWithoutAnomalies ==
    \A i \in HandedOver :
        requests[i].status = 200 =>
            \E failed \in SUBSET Sources :
                /\ "anomalies" \in failed
                /\ requests[i].response[1].data = Some(query_recent_changes(2, failed))

\* C24: a request that an exception ended (one of the correlation among
\* them) has status 500 and no reply, and a request that has ended without
\* one has status 200 and a reply; the history of the conversation holds the
\* message of every request and one reply for each request of status 200, and
\* nothing else.
C24_ExceptionEndsIn500 ==
    LET answered == {i \in 1..Len(requests) : requests[i].status = 200}
        h == History(DefaultId)
    IN  /\ \A i \in 1..Len(requests) :
               /\ requests[i].error # "" =>
                      Done(i) /\ requests[i].status = 500 /\ requests[i].response = None
               /\ (Done(i) /\ requests[i].error = "") =>
                      requests[i].status = 200 /\ requests[i].response # None
        /\ Count(appended, DefaultId) = Len(requests) + Cardinality(answered)
        /\ Len(h) = Len(requests) + Cardinality(answered)
        /\ Cardinality({k \in 1..Len(h) : h[k].role = "assistant"}) = Cardinality(answered)

\* the first request after the warm-up met a deployment time that does not
\* parse and ended with status 500, the next one was answered: the history
\* holds the twelve messages of the warm-up, the message of the first and the
\* turn of the second
C24_Witness ==
    /\ Len(requests) = Len(WarmUp) + 2
    /\ requests[Len(WarmUp) + 1].error = "ValueError"
    /\ requests[Len(WarmUp) + 1].status = 500
    /\ requests[Len(WarmUp) + 2].status = 200
    /\ Len(History(DefaultId)) = 2 * Len(WarmUp) + 3
    /\ History(DefaultId)[2 * Len(WarmUp) + 1].role = "user"
    /\ History(DefaultId)[2 * Len(WarmUp) + 2].role = "user"

\* the requests that named no conversation, or the empty one
Unnamed == {i \in 1..Len(requests) : requests[i].given \in {None, Some("")}}

\* the session a request of the id finds
SessionFound(cid) ==
    IF cid \in DOMAIN conversations THEN conversations[cid] ELSE NewSession

\* C30: every request that names no conversation, or the empty one, runs
\* under the id "default", and nothing is ever stored under the empty id;
\* the histories hold what the requests of their ids appended; and when such
\* a request arrives the Dialogue Engine is called on the session "default"
\* as the requests before left it, the user's message is appended to the
\* history of "default", and no other session or history changes.
C30_DefaultSession ==
    /\ [](  /\ \A i \in Unnamed : requests[i].conversation_id = DefaultId
            /\ "" \notin DOMAIN conversations \cup DOMAIN conversation_memory
            /\ \A i \in 1..Len(requests) : requests[i].conversation_id \in {DefaultId, "c1"}
            /\ \A cid \in {DefaultId, "c1"} :
                   Len(History(cid)) =
                       Cardinality({i \in 1..Len(requests) :
                                       requests[i].conversation_id = cid})
                       + Cardinality({i \in 1..Len(requests) :
                                         /\ requests[i].conversation_id = cid
                                         /\ requests[i].status = 200}) )
    /\ [][ (Len(requests') = Len(requests) + 1 /\ Len(requests') \in Unnamed') =>
               LET r == requests'[Len(requests')]
                   h == get_conversation_history(conversation_memory, DefaultId)
                   h1 == get_conversation_history(conversation_memory', DefaultId)
               IN  /\ engine_call'.cid = DefaultId
                   /\ engine_call'.before = SessionFound(DefaultId)
                   /\ conversations'[DefaultId] = After'
                   /\ \A c \in DOMAIN conversations \ {DefaultId} :
                          conversations'[c] = conversations[c]
                   /\ Len(h1) > Len(h)
                   /\ SubSeq(h1, 1, Len(h)) = h
                   /\ h1[Len(h) + 1] = ConversationMessage("user", r.message, None)
                   /\ \A c \in DOMAIN conversation_memory \ {DefaultId} :
                          conversation_memory'[c] = conversation_memory[c] ]_vars

\* a request without an id said "EMEA", one with the empty id said "1", one
\* without an id said "Acme Corp": the session "default" holds the three
\* answers, and the session "c1" is at its first question still
C30_Witness ==
    /\ Len(requests) = 4
    /\ requests[1].given = None /\ requests[1].message = M_EMEA
    /\ requests[2].given = Some("") /\ requests[2].message = kw_1
    /\ requests[3].given = Some("c1") /\ requests[3].message = M_Acme
    /\ requests[4].given = None /\ requests[4].message = M_Acme
    /\ conversations[DefaultId].step = "customer_process"
    /\ conversations[DefaultId].customer = Some(M_Acme)
    /\ conversations["c1"].step = "welcome"
    /\ Len(History(DefaultId)) = 6
    /\ Len(History("c1")) = 2

\* the place of request i among the requests of its conversation
Ordinal(i) ==
    Cardinality({j \in 1..i : requests[j].conversation_id = requests[i].conversation_id})

\* request i was answered by the Dialogue Engine alone: it ended on arrival,
\* without a monitoring bundle and without an LLM call
AnsweredByEngine(i) ==
    /\ requests[i].pc = "done"
    /\ requests[i].status = 200
    /\ requests[i].response[1].analysis_type = "conversation_flow"
    /\ requests[i].data = None
    /\ requests[i].llm_outcome = ""

\* C37: the first three requests of every conversation, and the fourth too
\* when its region is AMER, are answered by the Dialogue Engine alone; and a
\* request that is not belongs to a session that has its region, its issue
\* type and its subject.
C37_NoFetchBeforeSubject ==
    \A i \in 1..Len(requests) :
        LET s == conversations[requests[i].conversation_id]
        IN  /\ Ordinal(i) <= 3 => AnsweredByEngine(i)
            /\ (Ordinal(i) = 4 /\ s.wherami = Some("AMER")) => AnsweredByEngine(i)
            /\ ~AnsweredByEngine(i) =>
                   /\ s.wherami # None
                   /\ s.issue_type \in {Some("customer"), Some("environment"),
                                        Some("performance")}
                   /\ s.customer # None \/ s.environment # None
                          \/ s.performance_details # None

\* four requests without an id: "EMEA", "1", "Acme Corp" were answered by the
\* engine, and the fourth is the first to go on to the monitoring queries
C37_Witness ==
    /\ Len(requests) = 4
    /\ \A i \in 1..4 : requests[i].conversation_id = DefaultId
    /\ conversations[DefaultId].wherami = Some("EMEA")
    /\ \A i \in 1..3 : AnsweredByEngine(i)
    /\ requests[4].pc = "await_monitoring"

\* four requests of c1, the first of them "AMER": all four were answered by
\* the engine, the fourth with the initial-response reply
AmerFourthByEngine ==
    /\ Len(requests) = 4
    /\ \A i \in 1..4 : requests[i].conversation_id = "c1" /\ AnsweredByEngine(i)
    /\ requests[1].message = M_AMER
    /\ conversations["c1"].step = "customer_process"

\* the requests that take the step: the one that arrives, or those whose
\* record changes
Acting ==
    IF Len(requests') > Len(requests) THEN {Len(requests')}
    ELSE {i \in 1..Len(requests) : requests'[i] # requests[i]}

\* what is kept under a conversation id: its session, its history and the
\* number of messages appended to it
KeptUnder(convs, mem, app, cid) ==
    [session |-> IF cid \in DOMAIN convs THEN Some(convs[cid]) ELSE None,
     history |-> IF cid \in DOMAIN mem THEN Some(mem[cid]) ELSE None,
     appends |-> Count(app, cid)]

\* C31: every step is taken by one request, and it leaves the session and
\* the history of every conversation id other than its own as they were;
\* the engine call of an arriving request is made on its own id and reads
\* the session of that id, and the history a request takes to the LLM call
\* is the end of the history of its own id.
C31_IdsNeverContend ==
    [][ /\ Cardinality(Acting) = 1
        /\ \A i \in Acting :
               LET A == requests'[i].conversation_id
               IN  /\ \A B \in (DOMAIN conversations' \cup DOMAIN conversation_memory'
                                   \cup {DefaultId, "c1"}) \ {A} :
                          KeptUnder(conversations', conversation_memory', appended', B)
                              = KeptUnder(conversations, conversation_memory, appended, B)
                   /\ Len(requests') > Len(requests) =>
                          /\ engine_call'.cid = A
                          /\ engine_call'.before =
                                 (IF A \in DOMAIN conversations THEN conversations[A]
                                  ELSE NewSession)
                   /\ requests'[i].pc = "await_llm" =>
                          requests'[i].history =
                              LastN(get_conversation_history(conversation_memory, A),
                                    LLMHistoryWindow) ]_vars

\* four requests of c1 and one without an id between them: c1 is in
\* customer_process with its fourth request handed over, "default" has just
\* named its region, and each history holds the turns of its own id
C31_Witness ==
    /\ Len(requests) = 5
    /\ requests[2].conversation_id = DefaultId
    /\ \A i \in {1, 3, 4, 5} : requests[i].conversation_id = "c1"
    /\ conversations["c1"].step = "customer_process"
    /\ conversations[DefaultId].step = "ask_help_type"
    /\ requests[5].flow_result.use_traditional_flow
    /\ requests[5].pc = "done"
    /\ requests[5].status = 200
    /\ Len(History("c1")) = 8
    /\ Len(History(DefaultId)) = 2

\* the sessions left by giving the messages of the first n requests to the
\* Dialogue Engine one at a time, in the order the requests arrived
RECURSIVE Replay(_)
Replay(n) ==
    IF n = 0 THEN <<>>
    ELSE process_message(Replay(n - 1), requests[n].conversation_id, requests[n].message,
                         FallbackExclamation, FallbackJoke).convs

\* C38: whatever requests are suspended meanwhile, the sessions are those
\* that the messages of the requests, given to the Dialogue Engine one at a
\* time in their order of arrival, leave; and a request answered by the
\* Dialogue Engine has its message and its reply next to each other in the
\* history of its conversation.
C38_NoLostUpdate ==
    /\ conversations = Replay(Len(requests))
    /\ \A i \in 1..Len(requests) :
           AnsweredByEngine(i) =>
               LET h == History(requests[i].conversation_id)
               IN  \E k \in 1..(Len(h) - 1) :
                       /\ h[k] = ConversationMessage("user", requests[i].message, None)
                       /\ h[k + 1] = ConversationMessage("assistant",
                                         requests[i].response[1].response, None)

\* a request without an id names its region and is answered by the engine
\* while the fourth request of c1 is suspended in the monitoring queries
C38_Witness ==
    /\ Len(requests) = 5
    /\ requests[4].conversation_id = "c1"
    /\ requests[4].pc = "await_monitoring"
    /\ requests[5].conversation_id = DefaultId
    /\ AnsweredByEngine(5)
    /\ conversations[DefaultId].step = "ask_help_type"
    /\ conversations["c1"].step = "customer_process"

\* a changes report without its header
BodyOf(text) == SubSeq(text, Len(ChangesHeader(DefaultHours)) + 1, Len(text))

\* C39: a changes report is the header for the hours of the message followed
\* by the text that the plain message "what changed" gets for the same
\* bundle; the bundle returned is the one the request fetched, once, for the
\* last 2 hours, whatever hours the message names, and the correlation text
\* is that of this bundle.
C39_HoursOnlyInHeader ==
    \A i \in RuleAnswered :
        MatchesChanges(Lower(requests[i].message)) =>
            LET r == requests[i]
                reply == r.response[1]
                data == reply.data[1]
            IN  /\ reply.data = r.data
                /\ data.time_range = [hours |-> 2]
                /\ \E failed \in RuleFailureSets : data = query_recent_changes(2, failed)
                /\ \E order \in IterationOrders(ServicesWithIssues(data)) :
                       r.correlation_analysis = analyze_correlation(data, order)
                /\ reply.response =
                       ChangesHeader(StatedHours(r.message))
                           \o BodyOf(RuleBased(kw_what_changed, data, r.correlation_analysis,
                                               llm_clients).response)

\* "what changed in the last 3 hours" and "What changed" have been answered
\* from equal bundles: the replies differ in the header and in nothing else
C39_Witness ==
    /\ Len(requests) = Len(WarmUp) + 2
    /\ Len(WarmUp) + 1 \in RuleAnswered
    /\ Len(WarmUp) + 2 \in RuleAnswered
    /\ requests[Len(WarmUp) + 1].message = R_Last3
    /\ requests[Len(WarmUp) + 2].message = R_WhatChanged
    /\ requests[Len(WarmUp) + 1].data = requests[Len(WarmUp) + 2].data
    /\ requests[Len(WarmUp) + 1].data[1].deployments # <<>>
    /\ StartsWith(requests[Len(WarmUp) + 1].response[1].response, ChangesHeader(3))
    /\ StartsWith(requests[Len(WarmUp) + 2].response[1].response, ChangesHeader(2))
    /\ BodyOf(requests[Len(WarmUp) + 1].response[1].response)
           = BodyOf(requests[Len(WarmUp) + 2].response[1].response)

----------------------------------------------------------------------------
(* Properties of the Correlation Analyzer.  The result of a call is read   *)
(* back from its text: a deployment finding starts with its marker and is  *)
(* followed by the service, " v", the version, " deployed at ", the time,  *)
(* " followed by ", the digits of the count and " error types".            *)

DeploymentMarker == "(!) **Deployment Correlation**: "

MultiMarker == "(w) **Multi-Service Impact**: "

\* the positions of an atom in a text, in increasing order
PositionsOf(atom, text) ==
    LET Is(i) == text[i] = atom
    IN  SelectSeq([i \in 1..Len(text) |-> i], Is)

\* the first position of an atom after position p
NextAfter(atom, text, p) ==
    CHOOSE q \in (p + 1)..Len(text) :
        text[q] = atom /\ \A j \in (p + 1)..(q - 1) : text[j] # atom

\* the error records that follow a deployment: same service, first seen
\* strictly later
Following(deployment, errors) ==
    {i \in 1..Len(errors) :
        /\ errors[i].service = deployment.service
        /\ ParseTime(errors[i].first_seen) > ParseTime(deployment.timestamp)}

\* the indices of the deployments that some error follows, in input order
Qualifying(data) ==
    LET Q(j) == Following(data.deployments[j], data.errors) # {}
    IN  SelectSeq([j \in 1..Len(data.deployments) |-> j], Q)

\* C25: the result holds as many deployment findings as there are deployment
\* records followed by an error of their service first seen strictly later,
\* one for each of them, naming its service, version and time; a deployment
\* that has only errors of another service, or errors first seen at or before
\* its time, has no finding.
C25_OneFindingPerFollowedDeployment ==
    correlation_call.made =>
        LET data == correlation_call.data
            result == correlation_call.result
            found == PositionsOf(DeploymentMarker, result)
            q == Qualifying(data)
        IN  /\ Len(found) = Len(q)
            /\ \A j \in 1..Len(data.deployments) :
                   LET d == data.deployments[j]
                       same == {k \in 1..Len(q) : data.deployments[q[k]] = d}
                       told == {k \in 1..Len(found) :
                                   /\ result[found[k] + 1] = d.service
                                   /\ result[found[k] + 3] = d.version
                                   /\ result[found[k] + 5] = d.timestamp}
                   IN  Cardinality(told) = Cardinality(same)

\* a deployment followed by an error, one that has only an error first seen
\* at its own time, and an error of another service
C25_Witness ==
    /\ correlation_call.made
    /\ Len(correlation_call.data.deployments) = 2
    /\ correlation_call.data.deployments[1].service = "api-gateway"
    /\ correlation_call.data.deployments[1].timestamp = "2025-01-08T14:31:00Z"
    /\ correlation_call.data.deployments[2].service = "user-service"
    /\ correlation_call.data.deployments[2].timestamp = "2025-01-08T14:30:00Z"
    /\ Len(correlation_call.data.errors) = 2
    /\ correlation_call.data.errors[1].service = "api-gateway"
    /\ correlation_call.data.errors[1].first_seen = "2025-01-08T14:31:00Z"
    /\ correlation_call.data.errors[2].service = "user-service"
    /\ correlation_call.data.errors[2].first_seen = "2025-01-08T14:32:00Z"
    /\ Len(PositionsOf(DeploymentMarker, correlation_call.result)) = 1

\* the count a finding reports: the digits between " followed by " and
\* " error types"
ReportedCount(result, p) ==
    SubSeq(result, p + 7, NextAfter(" error types", result, p) - 1)

\* C26: the count of a deployment finding is the number of distinct error
\* types among the error records that follow the deployment.
C26_CountsDistinctTypes ==
    correlation_call.made =>
        LET data == correlation_call.data
            result == correlation_call.result
            found == PositionsOf(DeploymentMarker, result)
            q == Qualifying(data)
        IN  \A k \in 1..Len(found) :
                k <= Len(q) =>
                    ReportedCount(result, found[k]) =
                        IntToText(Cardinality(
                            {data.errors[i].error_type :
                                i \in Following(data.deployments[q[k]], data.errors)}))

\* the services found in the error and the anomaly records
AffectedServices(data) ==
    {data.errors[i].service : i \in 1..Len(data.errors)}
        \cup {data.anomalies[i].service : i \in 1..Len(data.anomalies)}

\* C27: the result holds one multi-service finding when the error and anomaly
\* records name more than one service between them and none otherwise; the
\* finding gives the number of these services and lists each of them once and
\* no other service, whatever the alerts and the deployments name.
C27_MultiServiceIff ==
    correlation_call.made =>
        LET data == correlation_call.data
            result == correlation_call.result
            found == PositionsOf(MultiMarker, result)
            affected == AffectedServices(data)
        IN  /\ Len(found) = IF Cardinality(affected) > 1 THEN 1 ELSE 0
            /\ Len(found) = 1 =>
                   LET from == NextAfter(" services affected: ", result, found[1])
                       names == {i \in (from + 1)..Len(result) : result[i] # ", "}
                   IN  /\ SubSeq(result, found[1] + 1, from - 1) =
                              IntToText(Cardinality(affected))
                       /\ {result[i] : i \in names} = affected
                       /\ Cardinality(names) = Cardinality(affected)

\* errors of one service only, while the deployments and the alerts name others
C27_Witness ==
    /\ correlation_call.made
    /\ AffectedServices(correlation_call.data) = {"api-gateway"}
    /\ Len(correlation_call.data.errors) = 2
    /\ Len(correlation_call.data.deployments) = 1
    /\ correlation_call.data.deployments[1].service = "user-service"
    /\ correlation_call.data.alerts # <<>>
    /\ PositionsOf(MultiMarker, correlation_call.result) = <<>>

\* C28: the findings come in a fixed order: the deployment findings, in the
\* order of the deployment records they are about and one per record even when
\* two records are of the same service, each on a line of its own, and after
\* them the multi-service finding; with no finding at all the result is the
\* text "No significant correlations detected.".
C28_FindingOrder ==
    correlation_call.made =>
        LET data == correlation_call.data
            result == correlation_call.result
            found == PositionsOf(DeploymentMarker, result)
            multi == PositionsOf(MultiMarker, result)
            q == Qualifying(data)
        IN  /\ Len(found) = Len(q)
            /\ \A k \in 1..Len(found) :
                   /\ result[found[k] + 1] = data.deployments[q[k]].service
                   /\ result[found[k] + 5] = data.deployments[q[k]].timestamp
                   /\ found[k] = 1 \/ result[found[k] - 1] = "\n"
                   /\ \A m \in 1..Len(multi) : found[k] < multi[m]
            /\ (found = <<>> /\ multi = <<>>)
                   <=> result = <<"No significant correlations detected.">>

\* two deployments of one service, the later one first, both followed by an
\* error, and a multi-service finding
C28_Witness ==
    /\ correlation_call.made
    /\ Len(correlation_call.data.deployments) = 2
    /\ correlation_call.data.deployments[1].service = "api-gateway"
    /\ correlation_call.data.deployments[2].service = "api-gateway"
    /\ correlation_call.data.deployments[1].timestamp = "2025-01-08T14:31:00Z"
    /\ correlation_call.data.deployments[2].timestamp = "2025-01-08T14:30:00Z"
    /\ Len(PositionsOf(DeploymentMarker, correlation_call.result)) = 2
    /\ Len(PositionsOf(MultiMarker, correlation_call.result)) = 1

----------------------------------------------------------------------------
(* Properties of the Power Automate integration *)

\* the alerts for which create_ticket has run
TicketAttempts == {i \in DOMAIN alerts : alerts[i].ticket_attempted}

\* Ticket creation is attempted only for severity "high" when an incident
\* alert is processed, after the Teams notification attempt, whether or not
\* that notification was sent.
TicketOrdering ==
    \A i \in DOMAIN alerts :
        LET a == alerts[i]
        IN  a.route = "incident" =>
                /\ a.ticket_attempted => a.severity = "high" /\ a.teams_attempted
                /\ a.severity = "high" /\ a.pc \in {"sleep", "done"} => a.ticket_attempted

\* Once the ServiceNow ticket URL is set, a ticket creation with the default
\* ticket system posts the ticket to that URL.
TicketReachesUrl ==
    \A i \in TicketAttempts :
        alerts[i].ticket_url # "" =>
            \E p \in DOMAIN posted : posted[p] = Post(alerts[i].ticket_url, "ticket", i)

\* C40: after the ServiceNow ticket webhook URL has been set through the
\* webhook-configuration route, processing a high-severity incident alert,
\* and the manual create-ticket route, post the ticket to that URL with the
\* default ticket system; ticket creation is attempted only for severity
\* "high", after the Teams notification attempt and whether or not that
\* notification succeeded.
C40_TicketPostedToConfiguredUrl == TicketReachesUrl /\ TicketOrdering

\* No ticket is ever posted, and the manual route always answers 500.
NoTicketEverPosted ==
    /\ \A p \in DOMAIN posted : posted[p].kind # "ticket"
    /\ \A i \in DOMAIN alerts : alerts[i].route = "manual" => alerts[i].status = 500

\* A high-severity alert processed, and a ticket asked for by hand, with the URL set.
TicketsAskedWithUrlSet ==
    /\ \E i \in TicketAttempts : alerts[i].route = "incident" /\ alerts[i].ticket_url = U_Ticket
    /\ \E i \in TicketAttempts : alerts[i].route = "manual" /\ alerts[i].ticket_url = U_Ticket
    /\ \E i \in TicketAttempts : alerts[i].route = "incident" /\ alerts[i].teams_sent
    /\ \E i \in TicketAttempts : alerts[i].route = "incident" /\ ~alerts[i].teams_sent

====
